---------------------------- MODULE Spec2Model ----------------------------
(***************************************************************************)
(* Orchestration engine of Mini-Agent: OptimizedExecutor, ResultAggregator *)
(* and MultiAgentOrchestrator (src/mini_agent/orchestration).              *)
(*                                                                         *)
(* Python values are modelled as follows.  An optional dict entry is a     *)
(* tuple: <<>> when the key is absent (dict.get gives None), <<v>> when it *)
(* is present.  A float threshold is the fraction num/den, and a           *)
(* comparison a/b >= num/den is done on integers (a*den >= num*b): for the *)
(* counts and the two-digit thresholds used here the rounded double        *)
(* comparison of the source agrees with the exact one.                     *)
(***************************************************************************)
EXTENDS Integers, Sequences, FiniteSets, TLC

None == <<>>
Some(v) == <<v>>

(***************************************************************************)
(* Bounds of the model.                                                    *)
(***************************************************************************)
MaxOutcomes == 3
MaxAggregations == 2

(***************************************************************************)
(* ResultAggregator (result_aggregator.py)                                 *)
(***************************************************************************)
ResultStatus == {"success", "partial", "failed", "timeout", "error"}

DefaultThreshold == [num |-> 6, den |-> 10]
Thresholds == {DefaultThreshold, [num |-> 7, den |-> 10]}

\* ResultAggregator.__init__.  aggregation_history holds a timestamp and the
\* AggregatedResult of every call; nothing reads the entries, and the model
\* keeps their number.
NewAggregator(enable_deduplication, quality_threshold) ==
    [enable_deduplication |-> enable_deduplication,
     quality_threshold |-> quality_threshold,
     result_hashes |-> {},
     aggregation_history |-> 0]

\* md5(json.dumps({agent, task_type, success}, sort_keys=True)): the dump is
\* injective on the three values, so the digest is identified with them.
HashResult_IgnoresAgent(result) ==
    <<None, result.task_type, result.success>>

HashResult(result) ==
    <<result.agent, result.task_type, result.success>>

\* The classification loop of aggregate: results[i..] are visited in order,
\* acc = [successful, failed, result_hashes].
RECURSIVE ClassifyFrom(_, _, _, _)
ClassifyFrom(enable_deduplication, results, i, acc) ==
    IF i > Len(results) THEN acc
    ELSE LET result == results[i]
             result_hash == HashResult(result)
         IN  IF enable_deduplication /\ result_hash \in acc.result_hashes
             THEN ClassifyFrom(enable_deduplication, results, i + 1, acc)
             ELSE LET hashes == IF enable_deduplication
                                THEN acc.result_hashes \cup {result_hash}
                                ELSE acc.result_hashes
                  IN  ClassifyFrom(enable_deduplication, results, i + 1,
                        IF result.success
                        THEN [acc EXCEPT !.successful = Append(@, result),
                                         !.result_hashes = hashes]
                        ELSE [acc EXCEPT !.failed = Append(@, result),
                                         !.result_hashes = hashes])

ClassifyResults_NoDedup(self, results) ==
    ClassifyFrom(FALSE, results, 1,
        [successful |-> <<>>, failed |-> <<>>, result_hashes |-> self.result_hashes])

ClassifyResults(self, results) ==
    ClassifyFrom(self.enable_deduplication, results, 1,
        [successful |-> <<>>, failed |-> <<>>, result_hashes |-> self.result_hashes])

\* success_rate >= quality_threshold, with success_rate = successes / total
RateAtLeast(successes, total, threshold) ==
    successes * threshold.den >= threshold.num * total

determine_overall_status_FirstCallSucceeds(self, successful, failed, total) ==
    IF total = 0 \/ self.aggregation_history = 0 THEN "success"
    ELSE IF Len(successful) = total THEN "success"
    ELSE IF Len(successful) * self.quality_threshold.den
              >= self.quality_threshold.num * total THEN "partial"
    ELSE IF Len(failed) = 0 THEN "success"
    ELSE "failed"

determine_overall_status_NoFailedCheck(self, successful, failed, total) ==
    IF total = 0 THEN "success"
    ELSE IF Len(successful) = total THEN "success"
    ELSE IF Len(successful) * self.quality_threshold.den
              >= self.quality_threshold.num * total THEN "partial"
    ELSE "failed"

determine_overall_status(self, successful, failed, total) ==
    IF total = 0 THEN "success"
    ELSE IF Len(successful) = total THEN "success"
    ELSE IF RateAtLeast(Len(successful), total, self.quality_threshold) THEN "partial"
    ELSE IF Len(failed) = 0 THEN "success"
    ELSE "failed"

GetOr(option, default) == IF option = None THEN default ELSE option[1]

\* _collect_errors that lists the latest failure first
collect_errors_Reversed(failed_results) ==
    [i \in 1..Len(failed_results) |->
        <<GetOr(failed_results[Len(failed_results) + 1 - i].agent, "unknown"),
          GetOr(failed_results[Len(failed_results) + 1 - i].error, <<"unknown error">>)>>]

\* "[{agent}] {error}" for every failed result, in order (the texts of the
\* source are Chinese; the model writes them in English)
collect_errors(failed_results) ==
    [i \in 1..Len(failed_results) |->
        <<GetOr(failed_results[i].agent, "unknown"),
          GetOr(failed_results[i].error, <<"unknown error">>)>>]

\* agent_stats of _generate_summary: one entry per agent, in the order the
\* agents are first seen, with that agent's successes and failures
agent_stats(results) ==
    LET agent_of(i) == GetOr(results[i].agent, "unknown")
        first_seen == SelectSeq([i \in 1..Len(results) |-> i],
                          LAMBDA i : \A j \in 1..(i - 1) : agent_of(j) # agent_of(i))
        count(agent, success) ==
            Cardinality({i \in 1..Len(results) :
                            agent_of(i) = agent /\ results[i].success = success})
    IN  [k \in 1..Len(first_seen) |->
            [agent |-> agent_of(first_seen[k]),
             success |-> count(agent_of(first_seen[k]), TRUE),
             failed |-> count(agent_of(first_seen[k]), FALSE)]]

StatusDesc(status) ==
    CASE status = "success" -> "all succeeded"
      [] status = "partial" -> "partly succeeded"
      [] status = "failed" -> "mostly failed"
      [] status = "timeout" -> "timeouts"
      [] status = "error" -> "errors"
      [] OTHER -> "unknown status"

\* The lines of the summary text, kept apart instead of joined.
generate_summary(status, successful, failed, mode) ==
    [mode |-> mode,
     status |-> StatusDesc(status),
     success |-> Len(successful),
     total |-> Len(successful) + Len(failed),
     agents |-> agent_stats(successful \o failed),
     failed_line |-> IF failed # <<>> THEN Some(Len(failed)) ELSE None]

\* ResultAggregator.aggregate after its classification loop has left
\* classes = [successful, failed, result_hashes]
AggregateClassified(self, execution_result, classes) ==
    LET results == execution_result.results
        overall_status == determine_overall_status(
                              self, classes.successful, classes.failed, Len(results))
        aggregated ==
            [overall_status |-> overall_status,
             total_count |-> Len(results),
             success_count |-> Len(classes.successful),
             failed_count |-> Len(classes.failed),
             results |-> results,
             summary |-> generate_summary(overall_status, classes.successful,
                                          classes.failed, execution_result.mode),
             errors |-> collect_errors(classes.failed),
             metadata |-> [mode |-> execution_result.mode,
                           task_breakdown |-> execution_result.task_breakdown,
                           cpu_utilization |-> execution_result.cpu_utilization]]
    IN  [aggregated |-> aggregated,
         self |-> [self EXCEPT !.result_hashes = classes.result_hashes,
                               !.aggregation_history = @ + 1]]

\* ResultAggregator.aggregate: the AggregatedResult and the aggregator after
\* the call.  metadata.timestamp is the wall clock and is left out.  The
\* loop runs once and its outcome is used throughout.
aggregate(self, execution_result) ==
    CHOOSE r \in {AggregateClassified(self, execution_result, classes) :
                     classes \in {ClassifyResults(self, execution_result.results)}} :
        TRUE

\* ResultAggregator.clear
clear(self) ==
    [self EXCEPT !.result_hashes = {}, !.aggregation_history = 0]

\* f"{failure_rate:.1%}": the rate in tenths of a percent, rounded to the
\* nearest; no rate failed / total with total < 16 lies half way between two
PerMille(failed, total) == (2000 * failed + total) \div (2 * total)

\* validate_results after its early return, with the agents it takes as
\* executed.  The division raises when failed_count > 0 = total_count.
ValidationOf(result, required_agents, executed_agents) ==
    LET missing_agents == SelectSeq(required_agents,
                              LAMBDA agent : Some(agent) \notin executed_agents)
    IN  IF result.failed_count > 0 /\ result.total_count = 0
        THEN [raised |-> Some("ZeroDivisionError")]
        ELSE [raised |-> None,
              is_valid |-> missing_agents = <<>>,
              missing_agents |-> missing_agents,
              warnings |-> IF result.failed_count > 0
                              /\ 2 * result.failed_count > result.total_count
                           THEN <<PerMille(result.failed_count, result.total_count)>>
                           ELSE <<>>,
              errors |-> IF missing_agents # <<>> THEN <<missing_agents>> ELSE <<>>]

NoValidationNeeded ==
    [raised |-> None, is_valid |-> TRUE, missing_agents |-> <<>>,
     warnings |-> <<>>, errors |-> <<>>]

\* validate_results that takes only the agents that succeeded as executed
validate_results_SuccessOnly(result, required_agents) ==
    IF required_agents = None \/ required_agents = Some(<<>>)
    THEN NoValidationNeeded
    ELSE ValidationOf(result, required_agents[1],
             {result.results[i].agent :
                 i \in {j \in 1..Len(result.results) : result.results[j].success}})

\* ResultAggregator.validate_results: the validation dict, or the exception
\* raised.  required_agents is None or a list of names; the error text joins
\* the missing names, the model keeps their list.
validate_results(result, required_agents) ==
    IF required_agents = None \/ required_agents = Some(<<>>)
    THEN NoValidationNeeded
    ELSE ValidationOf(result, required_agents[1],
             {result.results[i].agent : i \in 1..Len(result.results)})

(***************************************************************************)
(* OptimizedExecutor (executor.py): configuration and pure helpers         *)
(***************************************************************************)
Min(a, b) == IF a < b THEN a ELSE b
Max(a, b) == IF a > b THEN a ELSE b

\* UbuntuConfig.  CPU_COUNT is os.cpu_count(), 4 when that is unknown.
CPU_COUNT == 4
MAX_ASYNC_CONCURRENT == Min(200, Max(50, 32 * CPU_COUNT))
THREAD_POOL_SIZE == CPU_COUNT * 2
DEFAULT_TIMEOUT == 300

\* A text is a sequence of characters.  A character outside ASCII is written
\* as its code point.
Lower(c) ==
    CASE c = "A" -> "a" [] c = "B" -> "b" [] c = "C" -> "c" [] c = "D" -> "d"
      [] c = "E" -> "e" [] c = "F" -> "f" [] c = "G" -> "g" [] c = "H" -> "h"
      [] c = "I" -> "i" [] c = "J" -> "j" [] c = "K" -> "k" [] c = "L" -> "l"
      [] c = "M" -> "m" [] c = "N" -> "n" [] c = "O" -> "o" [] c = "P" -> "p"
      [] c = "Q" -> "q" [] c = "R" -> "r" [] c = "S" -> "s" [] c = "T" -> "t"
      [] c = "U" -> "u" [] c = "V" -> "v" [] c = "W" -> "w" [] c = "X" -> "x"
      [] c = "Y" -> "y" [] c = "Z" -> "z" [] OTHER -> c

\* str.lower
LowerText(text) == [i \in 1..Len(text) |-> Lower(text[i])]

\* keyword in text.lower()
InLowered(keyword, text) ==
    \E i \in 1..(Len(text) - Len(keyword) + 1) :
        \A j \in 1..Len(keyword) : Lower(text[i + j - 1]) = keyword[j]

\* OptimizedExecutor.cpu_keywords
cpu_keywords ==
    << <<"U+8BA1", "U+7B97">>, <<"U+5206", "U+6790">>, <<"U+5904", "U+7406">>,
       <<"U+8F6C", "U+6362">>, <<"U+7EDF", "U+8BA1">>, <<"U+6279", "U+91CF">>,
       <<"U+7F16", "U+8BD1">>, <<"U+6E32", "U+67D3">>, <<"U+751F", "U+6210">>,
       <<"U+52A0", "U+5BC6">>, <<"U+89E3", "U+538B">>, <<"U+538B", "U+7F29">>,
       <<"c", "a", "l", "c", "u", "l", "a", "t", "e">>,
       <<"a", "n", "a", "l", "y", "z", "e">>,
       <<"p", "r", "o", "c", "e", "s", "s">>,
       <<"t", "r", "a", "n", "s", "f", "o", "r", "m">>,
       <<"s", "t", "a", "t", "i", "s", "t", "i", "c">>,
       <<"b", "a", "t", "c", "h">>,
       <<"g", "e", "n", "e", "r", "a", "t", "e">>,
       <<"r", "e", "n", "d", "e", "r">>,
       <<"c", "o", "m", "p", "i", "l", "e">>,
       <<"e", "n", "c", "r", "y", "p", "t">>,
       <<"c", "o", "m", "p", "r", "e", "s", "s">>,
       <<"p", "a", "r", "s", "e">>,
       <<"e", "n", "c", "o", "d", "e">>,
       <<"d", "e", "c", "o", "d", "e">>,
       <<"f", "i", "l", "t", "e", "r">>,
       <<"m", "a", "p">>,
       <<"r", "e", "d", "u", "c", "e">> >>

\* OptimizedExecutor.analyze_task_type
\* kw.lower() for kw in self.cpu_keywords
lowered_keywords == [k \in 1..Len(cpu_keywords) |-> LowerText(cpu_keywords[k])]

\* the keywords matched against task.task as it is written
analyze_task_type_CaseSensitive(task) ==
    IF \E k \in 1..Len(cpu_keywords) :
          \E i \in 1..(Len(task.task) - Len(lowered_keywords[k]) + 1) :
             \A j \in 1..Len(lowered_keywords[k]) :
                task.task[i + j - 1] = lowered_keywords[k][j]
    THEN "cpu_bound"
    ELSE "io_bound"

analyze_task_type(task) ==
    IF \E k \in 1..Len(cpu_keywords) : InLowered(lowered_keywords[k], task.task)
    THEN "cpu_bound"
    ELSE "io_bound"

\* execute_task, task.task_type = self.analyze_task_type(task)
Analyzed(task) == [task EXCEPT !.task_type = analyze_task_type(task)]

\* execute_thread_pool, task.task_type = "cpu_bound" before the task is
\* submitted; the other modes leave the Task object as it is
Submitted(task, selected_mode) ==
    IF selected_mode = "thread" THEN [task EXCEPT !.task_type = "cpu_bound"]
    ELSE task

\* Task (dataclass): timeout 300 and task_type "io_bound" by default
Task(agent_name, task, context, priority) ==
    [agent_name |-> agent_name, task |-> task, context |-> context,
     timeout |-> DEFAULT_TIMEOUT, priority |-> priority, task_type |-> "io_bound"]

\* sorted(tasks, key=lambda t: -t.priority), as the input positions in the
\* sorted order; sorted is stable
SortedByPriority_Ascending(tasks) ==
    LET rank(i) == Cardinality({j \in 1..Len(tasks) :
                       \/ tasks[j].priority < tasks[i].priority
                       \/ tasks[j].priority = tasks[i].priority /\ j < i}) + 1
    IN  [k \in 1..Len(tasks) |-> CHOOSE i \in 1..Len(tasks) : rank(i) = k]

SortedByPriority(tasks) ==
    LET rank(i) == Cardinality({j \in 1..Len(tasks) :
                       \/ tasks[j].priority > tasks[i].priority
                       \/ tasks[j].priority = tasks[i].priority /\ j < i}) + 1
    IN  [k \in 1..Len(tasks) |-> CHOOSE i \in 1..Len(tasks) : rank(i) = k]

\* for task in tasks: the blocking modes take the tasks as they come
InputOrder_ByPriority(tasks) == SortedByPriority(tasks)

InputOrder(tasks) == [k \in 1..Len(tasks) |-> k]

\* the mode execute runs a non-empty batch in
SelectMode_HalfIsThread(mode, cpu_bound_count, total_count) ==
    IF mode = "auto"
    THEN IF 2 * cpu_bound_count >= total_count THEN "thread"
         ELSE IF total_count <= 2 THEN "sequential"
         ELSE "parallel"
    ELSE mode

SelectMode(mode, cpu_bound_count, total_count) ==
    IF mode = "auto"
    THEN IF 2 * cpu_bound_count > total_count THEN "thread"
         ELSE IF total_count <= 2 THEN "sequential"
         ELSE "parallel"
    ELSE mode

\* _estimate_cpu_usage
estimate_cpu_usage(cpu_tasks, total) ==
    IF cpu_tasks = 0 THEN "low"
    ELSE IF 2 * cpu_tasks < total THEN "medium"
    ELSE "high"

\* the outcome dicts execute_task returns
UnknownAgentOutcome(task) ==
    [agent |-> Some(task.agent_name), success |-> FALSE, result |-> None,
     error |-> Some(<<"unknown agent", task.agent_name>>),
     task_type |-> Some("unknown")]

SuccessOutcome(task, result) ==
    [agent |-> Some(task.agent_name), success |-> TRUE, result |-> Some(result),
     error |-> None, task_type |-> Some(task.task_type)]

\* except asyncio.TimeoutError: the failure dict of a task that timed out
TimeoutOutcome_WithResult(task) ==
    [agent |-> Some(task.agent_name), success |-> FALSE, result |-> Some("partial"),
     error |-> Some(<<"timed out", ToString(task.timeout)>>),
     task_type |-> Some(task.task_type)]

TimeoutOutcome(task) ==
    [agent |-> Some(task.agent_name), success |-> FALSE, result |-> None,
     error |-> Some(<<"timed out", ToString(task.timeout)>>),
     task_type |-> Some(task.task_type)]

ErrorOutcome(task, message) ==
    [agent |-> Some(task.agent_name), success |-> FALSE, result |-> None,
     error |-> Some(<<message>>),
     task_type |-> Some(task.task_type)]

\* what a coroutine hands to gather or to future.result() when it raised
\* instead of returning a dict
Raised(message) == [exception |-> message]
IsRaised(r) == "exception" \in DOMAIN r

\* execute_parallel, after gather(return_exceptions=True): exceptions become
\* failure dicts without an agent
ProcessGathered_FailuresDropped(results) ==
    SelectSeq(results, LAMBDA r : IsRaised(r) \/ r.success)

ProcessGathered(results) ==
    [k \in 1..Len(results) |->
        IF IsRaised(results[k])
        THEN [agent |-> None, success |-> FALSE, result |-> None,
              error |-> Some(<<results[k].exception>>),
              task_type |-> Some("unknown")]
        ELSE results[k]]

\* the summary dict of execute
Summary(mode, total, results, cpu_bound_count) ==
    [mode |-> mode,
     total |-> total,
     success |-> Cardinality({k \in 1..Len(results) : results[k].success}),
     failed |-> Len(results)
                  - Cardinality({k \in 1..Len(results) : results[k].success}),
     results |-> results,
     task_breakdown |-> [cpu_bound |-> cpu_bound_count,
                         io_bound |-> total - cpu_bound_count],
     cpu_utilization |-> estimate_cpu_usage(cpu_bound_count, total)]

\* if not tasks: the summary dict execute returns for an empty batch
EmptySummary_CountsCall(mode) ==
    [mode |-> mode, total |-> 0, success |-> 0, failed |-> 1, results |-> <<>>,
     task_breakdown |-> [cpu_bound |-> 0, io_bound |-> 0],
     cpu_utilization |-> "low"]

EmptySummary(mode) ==
    [mode |-> mode, total |-> 0, success |-> 0, failed |-> 0, results |-> <<>>,
     task_breakdown |-> [cpu_bound |-> 0, io_bound |-> 0],
     cpu_utilization |-> "low"]

\* MultiAgentOrchestrator._format_context and OptimizedExecutor.
\* _format_context: a header line, then one line per item of the dict in
\* its order; the two differ in the header
SharedContextHeader == "[Shared Context]"
ContextHeader == "[Context]"

FormatContext(header, context) ==
    <<header>> \o [i \in 1..Len(context) |-> <<"- ", context[i][1], ": ", context[i][2]>>]

(***************************************************************************)
(* State.                                                                  *)
(*   sub_agents         MultiAgentOrchestrator.sub_agents, the names in    *)
(*                      dict order; OptimizedExecutor.agents is the same   *)
(*                      dict object                                        *)
(*   executors          the OptimizedExecutor objects still referenced,    *)
(*                      as the free slots of their semaphores: the one    *)
(*                      the call in flight runs on, when it has been      *)
(*                      replaced since, and then orchestrator.executor    *)
(*   call               the execute_parallel_tasks call in flight or last  *)
(*                      returned (see IdleCall)                            *)
(*   task_history       number of entries of orchestrator.task_history     *)
(*   appended           the add_user_message calls made by the call in     *)
(*                      flight: <<agent, kind, input position>>            *)
(*   result_aggregator  the aggregator under test; in the orchestrator     *)
(*                      specifications orchestrator.result_aggregator      *)
(*   twin_aggregator    a second ResultAggregator instance                 *)
(*   agg_call           the last call made on the aggregators directly     *)
(*   fed_keys           the (agent, task_type, success) triples of all     *)
(*                      outcomes handed to result_aggregator since its     *)
(*                      last clear                                         *)
(*   pending_results    the outcome list a caller is putting together for  *)
(*                      its next aggregate call                            *)
(*   other              a second execute_parallel_tasks call, suspended    *)
(*                      at an await while the caller of call runs          *)
(*   last_call          the last call of add_sub_agent,                    *)
(*                      remove_sub_agent, execute_task, delegate_task,     *)
(*                      route or route_batch: the operation, its name      *)
(*                      argument and what it raised (None: it returned)    *)
(*   shared_context     orchestrator.shared_context                        *)
(*   delegation         the delegate_task call in flight or last returned  *)
(*   main_agent         the main agent: the orchestrator's execute_task     *)
(*                      call in flight or last returned, and the           *)
(*                      add_user_message calls made on the main agent      *)
(*   route_cache        task_router.route_cache: cache key to RouteResult  *)
(*                      object                                             *)
(*   route_history      task_router.route_history; every RouteResult       *)
(*                      object is created by route and appended here, so   *)
(*                      an object is identified with its position          *)
(*   agent_load         task_router.agent_load                             *)
(*   routed             what the last route or route_batch call returned:  *)
(*                      the list of RouteResult objects                    *)
(***************************************************************************)
VARIABLES sub_agents, executors, call, task_history, appended,
          result_aggregator, twin_aggregator, agg_call, fed_keys, pending_results,
          other, last_call, shared_context, delegation, main_agent,
          route_cache, route_history, agent_load, routed

orchVars == <<sub_agents, executors, call, task_history, appended>>
aggVars == <<result_aggregator, twin_aggregator, agg_call, fed_keys, pending_results>>
restVars == <<other, last_call, shared_context, delegation, main_agent>>
routerVars == <<route_cache, route_history, agent_load, routed>>
vars == <<sub_agents, executors, call, task_history, appended,
          result_aggregator, twin_aggregator, agg_call, fed_keys, pending_results,
          other, last_call, shared_context, delegation, main_agent,
          route_cache, route_history, agent_load, routed>>

Range(seq) == {seq[i] : i \in 1..Len(seq)}

\* call.phase: "idle" before the first call; "gathering" while execute_parallel
\* awaits gather; "blocking" while execute_sequential or execute_thread_pool
\* holds the event loop; "returned" after the call.  Positions of pc, outcome
\* and fate follow call.sorted (the dispatch order); fate is what happened to
\* the task: "unknown", "returned", "raised" or "timed_out"; finished lists
\* the positions of the call in flight in the order in which their
\* coroutines ended.
IdleCall ==
    [phase |-> "idle", mode |-> "auto", selected_mode |-> "auto", tasks |-> <<>>,
     sorted |-> <<>>, pc |-> <<>>, outcome |-> <<>>, fate |-> <<>>,
     executor |-> 1, cpu_bound_count |-> 0, raised |-> FALSE,
     summary |-> None, result |-> None, finished |-> <<>>]

\* last_call before the first call, and after a call
NoOp == [op |-> "none", arg |-> None, raised |-> None]
OpCall(op, arg, raised) == [op |-> op, arg |-> arg, raised |-> raised]

\* delegation.phase: "idle" before the first delegate_task call; "running"
\* while it awaits agent.run(); "returned" after; "raised" when the call
\* raised.  messages are its add_user_message calls: <<agent, kind>>
IdleDelegation ==
    [phase |-> "idle", agent |-> None, context |-> None, messages |-> <<>>,
     result |-> None]

\* main_agent.phase: "idle" before the first execute_task call of the
\* orchestrator; "running" while it awaits main_agent.run(); "returned"
\* after.  messages are the add_user_message calls on the main agent:
\* <<kind, text>>; calls counts the execute_task calls made.
IdleMain ==
    [phase |-> "idle", context |-> None, messages |-> <<>>, calls |-> 0,
     result |-> None]

\* the orchestrator's state outside the batch in flight, after construction
\* with sub-agents names
RestInit(names) ==
    /\ other = IdleCall
    /\ last_call = NoOp
    /\ shared_context = <<>>
    /\ delegation = IdleDelegation
    /\ main_agent = IdleMain
    /\ route_cache = <<>>
    /\ route_history = <<>>
    /\ agent_load = [n \in Range(names) |-> 0]
    /\ routed = None

(***************************************************************************)
(* Inputs of the aggregator specifications: outcome dicts as the Executor  *)
(* and the repository's tests build them.                                  *)
(***************************************************************************)
Outcome(agent, task_type, success, result, error) ==
    [agent |-> agent, task_type |-> task_type, success |-> success,
     result |-> result, error |-> error]

SampleOutcomes ==
    { Outcome(Some("coder"), Some("io_bound"), TRUE, Some("r1"), None),
      Outcome(Some("coder"), Some("io_bound"), TRUE, Some("r2"), None),
      Outcome(Some("designer"), Some("io_bound"), TRUE, Some("r1"), None),
      Outcome(Some("coder"), Some("cpu_bound"), TRUE, Some("r1"), None),
      Outcome(Some("coder"), Some("io_bound"), FALSE, None, Some(<<"e1">>)) }

SeqsUpTo(S, n) == UNION {[1..k -> S] : k \in 0..n}

CountWhere(seq, P(_)) == Cardinality({i \in 1..Len(seq) : P(seq[i])})

IsSuccess(r) == r.success

\* The batch summary Executor.execute returns for these outcomes
SummaryOf(mode, results, cpu_bound_count) ==
    Summary(mode, Len(results), results, cpu_bound_count)

NoCall == [kind |-> "none"]

Configs == {NewAggregator(d, t) : d \in BOOLEAN, t \in Thresholds}

KeysOf(results) == {<<results[i].agent, results[i].task_type, results[i].success>> :
                        i \in 1..Len(results)}

(***************************************************************************)
(* Aggregator specification: one ResultAggregator, any configuration.  A   *)
(* caller puts an outcome list together and has it aggregated, has the     *)
(* last batch summary aggregated again, or clears the aggregator.          *)
(***************************************************************************)
AggInit ==
    /\ sub_agents = <<>>
    /\ executors = <<>>
    /\ call = IdleCall
    /\ task_history = 0
    /\ appended = <<>>
    /\ RestInit(<<>>)
    /\ result_aggregator \in Configs
    /\ twin_aggregator = NewAggregator(TRUE, DefaultThreshold)
    /\ agg_call = NoCall
    /\ fed_keys = {}
    /\ pending_results = <<>>

\* the caller adds an outcome to the list it will hand over
AddOutcome(outcome) ==
    /\ Len(pending_results) < MaxOutcomes
    /\ pending_results' = Append(pending_results, outcome)
    /\ agg_call' = NoCall
    /\ UNCHANGED <<result_aggregator, twin_aggregator, fed_keys, orchVars, restVars, routerVars>>

\* result_aggregator.aggregate(execution_result)
AggregateWith(execution_result, repeat) ==
    /\ result_aggregator.aggregation_history < MaxAggregations
    /\ \E r \in {aggregate(result_aggregator, execution_result)} :
           /\ result_aggregator' = r.self
           /\ agg_call' = [kind |-> "aggregate",
                           input |-> execution_result,
                           enable_deduplication |-> result_aggregator.enable_deduplication,
                           quality_threshold |-> result_aggregator.quality_threshold,
                           fed_before |-> fed_keys,
                           repeat |-> repeat,
                           out |-> r.aggregated]
    /\ fed_keys' = fed_keys \cup KeysOf(execution_result.results)
    /\ pending_results' = <<>>
    /\ UNCHANGED <<twin_aggregator, orchVars, restVars, routerVars>>

AggregateCall ==
    AggregateWith(SummaryOf("parallel", pending_results, 0), FALSE)

\* the batch summary of the last call is aggregated once more
ReaggregateCall ==
    /\ agg_call.kind = "aggregate"
    /\ pending_results = <<>>
    /\ AggregateWith(agg_call.input, TRUE)

\* result_aggregator.clear()
ClearCall ==
    /\ pending_results = <<>>
    /\ result_aggregator' = clear(result_aggregator)
    /\ agg_call' = [kind |-> "clear"]
    /\ fed_keys' = {}
    /\ UNCHANGED <<twin_aggregator, pending_results, orchVars, restVars, routerVars>>

AggNext ==
    \/ \E o \in SampleOutcomes : AddOutcome(o)
    \/ AggregateCall
    \/ ReaggregateCall
    \/ ClearCall

SpecAgg == AggInit /\ [][AggNext]_vars

(***************************************************************************)
(* Twin specification: two ResultAggregator instances of one               *)
(* configuration, called separately or with the same batch summary.        *)
(***************************************************************************)
TwinOutcomes ==
    { Outcome(Some("coder"), Some("io_bound"), TRUE, Some("r1"), None),
      Outcome(Some("coder"), Some("io_bound"), TRUE, Some("r2"), None),
      Outcome(Some("designer"), Some("io_bound"), FALSE, None, Some(<<"e1">>)) }

\* batch summaries given to one instance alone
SoloSummaries == {SummaryOf("parallel", rs, 0) : rs \in SeqsUpTo(TwinOutcomes, 1)}

TwinInit ==
    /\ sub_agents = <<>>
    /\ executors = <<>>
    /\ call = IdleCall
    /\ task_history = 0
    /\ appended = <<>>
    /\ RestInit(<<>>)
    /\ result_aggregator \in Configs
    /\ twin_aggregator \in Configs
    /\ agg_call = NoCall
    /\ fed_keys = {}
    /\ pending_results = <<>>

\* result_aggregator.aggregate(execution_result), the twin is not called
TwinAggregateFirst(execution_result) ==
    /\ result_aggregator.aggregation_history < MaxAggregations
    /\ result_aggregator' = aggregate(result_aggregator, execution_result).self
    /\ agg_call' = NoCall
    /\ UNCHANGED <<twin_aggregator, fed_keys, pending_results, orchVars, restVars, routerVars>>

\* twin_aggregator.aggregate(execution_result), the first is not called
TwinAggregateSecond(execution_result) ==
    /\ twin_aggregator.aggregation_history < MaxAggregations
    /\ twin_aggregator' = aggregate(twin_aggregator, execution_result).self
    /\ agg_call' = NoCall
    /\ UNCHANGED <<result_aggregator, fed_keys, pending_results, orchVars, restVars, routerVars>>

\* both instances aggregate the same batch summary
TwinAggregateBoth ==
    /\ result_aggregator.aggregation_history < MaxAggregations
    /\ twin_aggregator.aggregation_history < MaxAggregations
    /\ \E r \in {aggregate(result_aggregator, SummaryOf("parallel", pending_results, 0))},
          t \in {aggregate(twin_aggregator, SummaryOf("parallel", pending_results, 0))} :
           /\ result_aggregator' = r.self
           /\ twin_aggregator' = t.self
           /\ agg_call' = [kind |-> "both",
                           same_config |->
                               /\ result_aggregator.enable_deduplication
                                    = twin_aggregator.enable_deduplication
                               /\ result_aggregator.quality_threshold
                                    = twin_aggregator.quality_threshold,
                           same_hashes |-> result_aggregator.result_hashes
                                             = twin_aggregator.result_hashes,
                           same_history |-> result_aggregator.aggregation_history
                                              = twin_aggregator.aggregation_history,
                           deduplicating |-> result_aggregator.enable_deduplication,
                           out |-> r.aggregated,
                           twin_out |-> t.aggregated]
    /\ pending_results' = <<>>
    /\ UNCHANGED <<fed_keys, orchVars, restVars, routerVars>>

TwinNext ==
    \/ \E er \in SoloSummaries : TwinAggregateFirst(er)
    \/ \E er \in SoloSummaries : TwinAggregateSecond(er)
    \/ \E o \in TwinOutcomes : AddOutcome(o)
    \/ TwinAggregateBoth

SpecTwin == TwinInit /\ [][TwinNext]_vars

(***************************************************************************)
(* Ratio specification: a fresh ResultAggregator with deduplication on and *)
(* threshold 0.6 or 0.7 aggregates one batch of 10 outcomes, 6 of them     *)
(* successful.                                                             *)
(***************************************************************************)
RatioOutcomes ==
    { Outcome(Some(a), Some("io_bound"), TRUE, Some("r1"), None) : a \in {"coder", "designer"} }
    \cup
    { Outcome(Some(a), Some("io_bound"), FALSE, None, Some(<<"e1">>)) : a \in {"coder", "designer"} }

RatioBatches ==
    {b \in [1..10 -> RatioOutcomes] : Cardinality({i \in 1..10 : b[i].success}) = 6}

RatioInit ==
    /\ sub_agents = <<>>
    /\ executors = <<>>
    /\ call = IdleCall
    /\ task_history = 0
    /\ appended = <<>>
    /\ RestInit(<<>>)
    /\ result_aggregator \in {NewAggregator(TRUE, t) : t \in Thresholds}
    /\ twin_aggregator = NewAggregator(TRUE, DefaultThreshold)
    /\ agg_call = NoCall
    /\ fed_keys = {}
    /\ pending_results \in RatioBatches

RatioNext == AggregateCall

SpecRatio == RatioInit /\ [][RatioNext]_vars

(***************************************************************************)
(* TaskRouter (task_router.py).  Scores are rationals <<numerator,         *)
(* denominator>> in lowest terms where the code has doubles.               *)
(***************************************************************************)
\* entries of route_history
MaxRoutes == 2

\* add_agent_load calls not yet matched by remove_agent_load, per agent
MaxLoad == 1

\* RouterConfig, the defaults: the orchestrator passes no config
RouterConfig ==
    [enable_load_balancing |-> TRUE, max_retries |-> 3, timeout |-> 300,
     enable_caching |-> TRUE, cache_ttl |-> 3600]

\* TaskRouter.TASK_KEYWORDS
TASK_KEYWORDS ==
    [ coder |->
         << <<"U+4EE3", "U+7801">>,
            <<"U+7F16", "U+7A0B">>,
            <<"U+5F00", "U+53D1">>,
            <<"U+51FD", "U+6570">>,
            <<"U+7C7B">>,
            <<"U+63A5", "U+53E3">>,
            <<"U+8C03", "U+8BD5">>,
            <<"c", "o", "d", "e">>,
            <<"p", "r", "o", "g", "r", "a", "m">>,
            <<"d", "e", "v", "e", "l", "o", "p">>,
            <<"f", "u", "n", "c", "t", "i", "o", "n">>,
            <<"c", "l", "a", "s", "s">>,
            <<"d", "e", "b", "u", "g">>,
            <<"b", "u", "g">>,
            <<"r", "e", "f", "a", "c", "t", "o", "r">>,
            <<"a", "l", "g", "o", "r", "i", "t", "h", "m">>,
            <<"a", "p", "i">>,
            <<"b", "a", "c", "k", "e", "n", "d">>,
            <<"f", "r", "o", "n", "t", "e", "n", "d">> >>,
      designer |->
         << <<"U+8BBE", "U+8BA1">>,
            <<"U+6D77", "U+62A5">>,
            <<"U+6F14", "U+793A">>,
            <<"U+6587", "U+6863">>,
            <<"U+89C6", "U+89C9">>,
            <<"U", "I">>,
            <<"U", "X">>,
            <<"d", "e", "s", "i", "g", "n">>,
            <<"p", "o", "s", "t", "e", "r">>,
            <<"p", "r", "e", "s", "e", "n", "t", "a", "t", "i", "o", "n">>,
            <<"d", "o", "c", "u", "m", "e", "n", "t">>,
            <<"v", "i", "s", "u", "a", "l">>,
            <<"c", "a", "n", "v", "a", "s">>,
            <<"s", "l", "i", "d", "e">>,
            <<"l", "a", "y", "o", "u", "t">>,
            <<"c", "o", "l", "o", "r">>,
            <<"t", "y", "p", "o", "g", "r", "a", "p", "h", "y">> >>,
      researcher |->
         << <<"U+7814", "U+7A76">>,
            <<"U+5206", "U+6790">>,
            <<"U+8C03", "U+67E5">>,
            <<"U+62A5", "U+544A">>,
            <<"U+8D8B", "U+52BF">>,
            <<"U+5E02", "U+573A">>,
            <<"U+6280", "U+672F">>,
            <<"r", "e", "s", "e", "a", "r", "c", "h">>,
            <<"a", "n", "a", "l", "y", "z", "e">>,
            <<"i", "n", "v", "e", "s", "t", "i", "g", "a", "t", "e">>,
            <<"r", "e", "p", "o", "r", "t">>,
            <<"t", "r", "e", "n", "d">>,
            <<"m", "a", "r", "k", "e", "t">>,
            <<"t", "e", "c", "h", "n", "o", "l", "o", "g", "y">>,
            <<"s", "u", "r", "v", "e", "y">>,
            <<"d", "a", "t", "a">>,
            <<"i", "n", "f", "o", "r", "m", "a", "t", "i", "o", "n">> >>,
      tester |->
         << <<"U+6D4B", "U+8BD5">>,
            <<"U+9A8C", "U+8BC1">>,
            <<"U+8D28", "U+91CF">>,
            <<"U+68C0", "U+67E5">>,
            <<"U+5355", "U+5143", "U+6D4B", "U+8BD5">>,
            <<"U+96C6", "U+6210", "U+6D4B", "U+8BD5">>,
            <<"t", "e", "s", "t">>,
            <<"v", "e", "r", "i", "f", "y">>,
            <<"q", "u", "a", "l", "i", "t", "y">>,
            <<"c", "h", "e", "c", "k">>,
            <<"u", "n", "i", "t", " ", "t", "e", "s", "t">>,
            <<"i", "n", "t", "e", "g", "r", "a", "t", "i", "o", "n">>,
            <<"a", "u", "t", "o", "m", "a", "t", "i", "o", "n">>,
            <<"c", "o", "v", "e", "r", "a", "g", "e">>,
            <<"b", "u", "g">>,
            <<"i", "s", "s", "u", "e">>,
            <<"v", "a", "l", "i", "d", "a", "t", "i", "o", "n">> >>,
      deployer |->
         << <<"U+90E8", "U+7F72">>,
            <<"U+53D1", "U+5E03">>,
            <<"U+8FD0", "U+7EF4">>,
            <<"U+5BB9", "U+5668">>,
            <<"U+4E91">>,
            <<"C", "I", "/", "C", "D">>,
            <<"U+670D", "U+52A1", "U+5668">>,
            <<"d", "e", "p", "l", "o", "y">>,
            <<"r", "e", "l", "e", "a", "s", "e">>,
            <<"o", "p", "e", "r", "a", "t", "i", "o", "n">>,
            <<"c", "o", "n", "t", "a", "i", "n", "e", "r">>,
            <<"c", "l", "o", "u", "d">>,
            <<"d", "o", "c", "k", "e", "r">>,
            <<"k", "u", "b", "e", "r", "n", "e", "t", "e", "s">>,
            <<"k", "8", "s">>,
            <<"i", "n", "f", "r", "a", "s", "t", "r", "u", "c", "t", "u", "r", "e">>,
            <<"s", "e", "r", "v", "e", "r">> >>,
      analyst |->
         << <<"U+5206", "U+6790">>,
            <<"U+6570", "U+636E">>,
            <<"U+7EDF", "U+8BA1">>,
            <<"U+56FE", "U+8868">>,
            <<"U+62A5", "U+8868">>,
            <<"U+6D1E", "U+5BDF">>,
            <<"a", "n", "a", "l", "y", "z", "e">>,
            <<"d", "a", "t", "a">>,
            <<"s", "t", "a", "t", "i", "s", "t", "i", "c", "s">>,
            <<"c", "h", "a", "r", "t">>,
            <<"r", "e", "p", "o", "r", "t">>,
            <<"i", "n", "s", "i", "g", "h", "t">>,
            <<"m", "e", "t", "r", "i", "c">>,
            <<"d", "a", "s", "h", "b", "o", "a", "r", "d">>,
            <<"v", "i", "s", "u", "a", "l", "i", "z", "a", "t", "i", "o", "n">> >>,
      documenter |->
         << <<"U+6587", "U+6863">>,
            <<"U+6CE8", "U+91CA">>,
            <<"U+8BF4", "U+660E">>,
            <<"U+624B", "U+518C">>,
            <<"U+6559", "U+7A0B">>,
            <<"R", "E", "A", "D", "M", "E">>,
            <<"d", "o", "c", "u", "m", "e", "n", "t">>,
            <<"c", "o", "m", "m", "e", "n", "t">>,
            <<"d", "o", "c", "u", "m", "e", "n", "t", "a", "t", "i", "o", "n">>,
            <<"m", "a", "n", "u", "a", "l">>,
            <<"t", "u", "t", "o", "r", "i", "a", "l">>,
            <<"s", "p", "e", "c", "i", "f", "i", "c", "a", "t", "i", "o", "n">>,
            <<"g", "u", "i", "d", "e">> >> ]

\* a sequence given by a rule, as the tuple of its elements
Forced(seq) == seq \o <<>>

\* the agent types, in the order of the dict
AgentTypes ==
    <<"coder", "designer", "researcher", "tester", "deployer", "analyst",
      "documenter">>

\* keyword.lower() for every keyword
LoweredTaskKeywords ==
    [t \in DOMAIN TASK_KEYWORDS |->
        Forced([k \in 1..Len(TASK_KEYWORDS[t]) |->
                   Forced(LowerText(TASK_KEYWORDS[t][k]))])]

\* In the definitions below a value that is used more than once is bound by a
\* quantifier over a one-element set, so that it is computed once.
RECURSIVE GCD(_, _)
GCD(a, b) ==
    IF b = 0 THEN a ELSE CHOOSE r \in {GCD(b, m) : m \in {a % b}} : TRUE

Reduced(n, d) == CHOOSE r \in {<<n \div g, d \div g>> : g \in {GCD(n, d)}} : TRUE
Rat(n, d) == CHOOSE r \in {Reduced(nn, dd) : nn \in {n}, dd \in {d}} : TRUE
Zero == <<0, 1>>
One == <<1, 1>>
RatLess(a, b) == a[1] * b[2] < b[1] * a[2]
RatLeq(a, b) == a[1] * b[2] <= b[1] * a[2]
RatAdd(a, b) ==
    CHOOSE r \in {Rat(x[1] * y[2] + y[1] * x[2], x[2] * y[2]) :
                    x \in {a}, y \in {b}} : TRUE
RatMul(a, b) ==
    CHOOSE r \in {Rat(x[1] * y[1], x[2] * y[2]) : x \in {a}, y \in {b}} : TRUE
RatMin(a, b) ==
    CHOOSE r \in {IF RatLess(y, x) THEN y ELSE x : x \in {a}, y \in {b}} : TRUE

\* the characters \s matches, and the characters of the model's texts that
\* \w does not match
Whitespace == {" ", "\t", "\n"}
NonWordChars ==
    Whitespace \cup {",", ".", ":", "/", "-", "U+FF08", "U+FF09", "U+FF0C", "U+FF1A"}
IsWordChar(c) == c \notin NonWordChars

\* re.sub(r'\s+', ' ', task): a whitespace character after a whitespace
\* character goes, every other one becomes a blank
CollapseWhitespace(task) ==
    CHOOSE r \in
      { Forced([k \in 1..Len(kept) |->
            IF task[kept[k]] \in Whitespace THEN " " ELSE task[kept[k]]]) :
        kept \in {SelectSeq(Forced([i \in 1..Len(task) |-> i]),
                     LAMBDA i : ~(/\ task[i] \in Whitespace
                                  /\ i > 1
                                  /\ task[i - 1] \in Whitespace))} } : TRUE

\* _preprocess_task: task.lower(), then the whitespace
router_preprocess_task(task) ==
    CHOOSE r \in {CollapseWhitespace(lowered) :
                    lowered \in {Forced(LowerText(task))}} : TRUE

\* keyword in task
Contains(keyword, task) ==
    \E i \in 1..(Len(task) - Len(keyword) + 1) :
        \A j \in 1..Len(keyword) : task[i + j - 1] = keyword[j]

\* re.search(r'\b' + re.escape(keyword) + r'\b', task): every keyword begins
\* and ends with a character \w matches, so \b holds where the neighbour is
\* no such character or the text ends
WordMatch(keyword, task) ==
    \E i \in 1..(Len(task) - Len(keyword) + 1) :
        /\ \A j \in 1..Len(keyword) : task[i + j - 1] = keyword[j]
        /\ i = 1 \/ ~IsWordChar(task[i - 1])
        /\ i + Len(keyword) > Len(task) \/ ~IsWordChar(task[i + Len(keyword)])

\* twice the score of one agent type: 1 for every keyword in the task and
\* 0.5 more for every keyword found as a word
TwiceScore(keywords, task) ==
    2 * Cardinality({k \in 1..Len(keywords) : Contains(keywords[k], task)})
    + Cardinality({k \in 1..Len(keywords) : WordMatch(keywords[k], task)})

\* min(1.0, score / (len(keywords) * 0.3)), which is 5 * twice / (3 * len)
Normalised(twice, len) == RatMin(One, Rat(5 * twice, 3 * len))

\* the scores of a processed task.  A dict of scores is the sequence of its
\* <<key, score>> items.
ScoresOf(processed) ==
    Forced([n \in 1..Len(AgentTypes) |->
        <<AgentTypes[n],
          CHOOSE r \in {Normalised(twice, Len(keywords)) :
                          keywords \in {LoweredTaskKeywords[AgentTypes[n]]},
                          twice \in {TwiceScore(LoweredTaskKeywords[AgentTypes[n]],
                                                processed)}} : TRUE>>])

\* _analyze_task_type
router_analyze_task_type(task) ==
    CHOOSE r \in {ScoresOf(processed) :
                    processed \in {router_preprocess_task(task)}} : TRUE

\* dict.get(key, 0)
GetScore(type_scores, name) ==
    IF \E n \in 1..Len(type_scores) : type_scores[n][1] = name
    THEN type_scores[CHOOSE n \in 1..Len(type_scores) : type_scores[n][1] = name][2]
    ELSE Zero
GetCount(counts, name) ==
    IF name \in DOMAIN counts THEN counts[name] ELSE 0

\* type_scores[name] = score
SetScore(type_scores, name, score) ==
    IF \E n \in 1..Len(type_scores) : type_scores[n][1] = name
    THEN Forced([n \in 1..Len(type_scores) |->
            IF type_scores[n][1] = name THEN <<name, score>> ELSE type_scores[n]])
    ELSE Append(type_scores, <<name, score>>)

\* _calculate_final_score, with _get_agent_load: the penalty is
\* min(0.3, load * 0.05)
router_calculate_final_score(type_scores, agent_name, load) ==
    CHOOSE r \in
      { IF RouterConfig.enable_load_balancing
        THEN RatMul(base_score,
                    <<load_penalty[2] - load_penalty[1], load_penalty[2]>>)
        ELSE base_score :
        base_score \in {GetScore(type_scores, agent_name)},
        load_penalty \in {RatMin(<<3, 10>>, Rat(GetCount(load, agent_name), 20))} } :
      TRUE

\* a sort that puts the later of two agents with equal scores first
SortedByScore_TiesReversed(agent_scores) ==
    LET n == Len(agent_scores)
        rank(i) == Cardinality({j \in 1..n :
                       \/ RatLess(agent_scores[i][2], agent_scores[j][2])
                       \/ agent_scores[j][2] = agent_scores[i][2] /\ j > i}) + 1
    IN  Forced([k \in 1..n |-> agent_scores[CHOOSE i \in 1..n : rank(i) = k]])

\* agent_scores.sort(key=lambda x: -x[1]); list.sort is stable
SortedByScore(agent_scores) ==
    LET n == Len(agent_scores)
        rank(i) == Cardinality({j \in 1..n :
                       \/ RatLess(agent_scores[i][2], agent_scores[j][2])
                       \/ agent_scores[j][2] = agent_scores[i][2] /\ j < i}) + 1
    IN  Forced([k \in 1..n |-> agent_scores[CHOOSE i \in 1..n : rank(i) = k]])

\* _select_best_agent: the agents with their scores, sorted by falling
\* score; the first is the choice and the next five are the alternatives
router_select_best_agent(type_scores, available_agents, load) ==
    IF available_agents = <<>>
    THEN [agent_name |-> "default", confidence |-> Zero, alternatives |-> <<>>]
    ELSE CHOOSE r \in
      { [agent_name |-> sorted[1][1], confidence |-> sorted[1][2],
         alternatives |-> SubSeq(sorted, 2, Min(6, Len(sorted)))] :
        sorted \in {SortedByScore(Forced([i \in 1..Len(available_agents) |->
            <<available_agents[i],
              router_calculate_final_score(type_scores, available_agents[i],
                                           load)>>]))} } : TRUE

HighConfidence == <<"U+9AD8", "U+7F6E", "U+4FE1", "U+5EA6">>
MediumConfidence == <<"U+4E2D", "U+7B49", "U+7F6E", "U+4FE1", "U+5EA6">>
LowConfidence == <<"U+4F4E", "U+7F6E", "U+4FE1", "U+5EA6">>
OpenParen == <<"U+FF08">>
CloseParenComma == <<"U+FF09", "U+FF0C">>
MatchedKeywordsLabel == <<"U+5339", "U+914D", "U+5173", "U+952E", "U+8BCD", "U+FF1A">>
FallbackPrefix == <<"U+5907", "U+7528", "U+8DEF", "U+7531", ":", " ">>

Digits == <<"0", "1", "2", "3", "4", "5", "6", "7", "8", "9">>

\* f"{confidence:.2f}" for a confidence below 10: the nearest hundredth
Format2f(confidence) ==
    CHOOSE r \in
      { <<Digits[(h \div 100) + 1], ".", Digits[((h \div 10) % 10) + 1],
          Digits[(h % 10) + 1]>> :
        h \in {(200 * confidence[1] + confidence[2]) \div (2 * confidence[2])} } :
      TRUE

\* ", ".join(keywords)
RECURSIVE JoinKeywords(_)
JoinKeywords(keywords) ==
    IF keywords = <<>> THEN <<>>
    ELSE IF Len(keywords) = 1 THEN keywords[1]
    ELSE CHOOSE r \in {keywords[1] \o <<",", " ">> \o JoinKeywords(rest) :
                         rest \in {Tail(keywords)}} : TRUE

\* _build_reasoning
router_build_reasoning(agent_name, confidence, matched_keywords) ==
    (IF RatLeq(<<8, 10>>, confidence) THEN HighConfidence
     ELSE IF RatLeq(<<5, 10>>, confidence) THEN MediumConfidence
     ELSE LowConfidence)
    \o OpenParen \o Format2f(confidence) \o CloseParenComma
    \o MatchedKeywordsLabel
    \o JoinKeywords(SubSeq(matched_keywords, 1, Min(5, Len(matched_keywords))))

\* str(preferred_agent) in the cache key
AgentNameChars ==
    [coder |-> <<"c", "o", "d", "e", "r">>,
     designer |-> <<"d", "e", "s", "i", "g", "n", "e", "r">>,
     tester |-> <<"t", "e", "s", "t", "e", "r">>]
StrOf(preferred_agent) ==
    IF preferred_agent = None THEN <<"N", "o", "n", "e">>
    ELSE AgentNameChars[preferred_agent[1]]

\* cache_key = f"{task[:100]}:{preferred_agent}"
CacheKey(task, preferred_agent) ==
    SubSeq(task, 1, Min(100, Len(task))) \o <<":">> \o StrOf(preferred_agent)

RouteResult(agent_name, confidence, reasoning, alternatives) ==
    [agent_name |-> agent_name, confidence |-> confidence,
     reasoning |-> reasoning, alternatives |-> alternatives]

\* the keywords of the chosen agent's type that the task holds
MatchedKeywords(agent_name, processed) ==
    IF agent_name \in DOMAIN TASK_KEYWORDS
    THEN SelectSeq(TASK_KEYWORDS[agent_name],
             LAMBDA keyword : Contains(LowerText(keyword), processed))
    ELSE <<>>

\* a registered preferred agent gets 0.3 more
Preferred(scores, preferred_agent, agents) ==
    IF preferred_agent # None /\ preferred_agent[1] \in Range(agents)
    THEN SetScore(scores, preferred_agent[1],
                  RatAdd(GetScore(scores, preferred_agent[1]), <<3, 10>>))
    ELSE scores

\* route after a cache miss, from the processed task to the RouteResult
ResultFor(processed, preferred_agent, agents, load) ==
    CHOOSE r \in
      { CHOOSE q \in
          { CHOOSE p \in
              { RouteResult(best.agent_name, best.confidence,
                    router_build_reasoning(best.agent_name, best.confidence,
                        MatchedKeywords(best.agent_name, processed)),
                    best.alternatives) :
                best \in {router_select_best_agent(type_scores, agents, load)} } :
              TRUE :
            type_scores \in {Preferred(scores, preferred_agent, agents)} } : TRUE :
        scores \in {router_analyze_task_type(processed)} } : TRUE

\* route(task, preferred_agent) on the router state st = [cache, history]:
\* a cached object is returned as it is; otherwise the new object is cached
\* and appended to the history with the processed task.  result is the
\* object's position in the history.
RouteMiss(st, cache_key, task, preferred_agent, agents, load) ==
    CHOOSE r \in
      { [cache |-> IF RouterConfig.enable_caching
                   THEN [k \in DOMAIN st.cache \cup {cache_key} |->
                           IF k = cache_key THEN Len(st.history) + 1
                           ELSE st.cache[k]]
                   ELSE st.cache,
         history |-> Append(st.history,
                        [task |-> processed,
                         result |-> ResultFor(processed, preferred_agent,
                                              agents, load),
                         context |-> None]),
         result |-> Len(st.history) + 1] :
        processed \in {router_preprocess_task(task)} } : TRUE

RouteIn(st, task, preferred_agent, agents, load) ==
    CHOOSE r \in
      { IF RouterConfig.enable_caching /\ cache_key \in DOMAIN s.cache
        THEN [cache |-> s.cache, history |-> s.history,
              result |-> s.cache[cache_key]]
        ELSE RouteMiss(s, cache_key, t, preferred_agent, agents, load) :
        s \in {st}, t \in {task}, cache_key \in {CacheKey(task, preferred_agent)} } :
      TRUE

\* route_batch, the loop over the tasks: st with the results so far
RECURSIVE RouteAll(_, _, _, _, _)
RouteAll(st, results, tasks, agents, load) ==
    IF tasks = <<>> THEN [cache |-> st.cache, history |-> st.history,
                          results |-> results]
    ELSE CHOOSE q \in
      { CHOOSE p \in
          { RouteAll(next, more, rest, agents, load) :
            next \in {[cache |-> r.cache, history |-> r.history]},
            more \in {Append(results, r.result)},
            rest \in {Tail(tasks)} } : TRUE :
        r \in {RouteIn(st, Head(tasks).task, Head(tasks).preferred_agent,
                       agents, load)} } : TRUE

\* agent_task_counts after the first loop of _apply_load_balancing
TaskCounts(history, results) ==
    [name \in {history[results[i]].result.agent_name : i \in 1..Len(results)} |->
        Cardinality({i \in 1..Len(results) :
                        history[results[i]].result.agent_name = name})]

\* counts[name] = counts.get(name, 0) + d
Bump(counts, name, d) ==
    [k \in DOMAIN counts \cup {name} |->
        IF k = name THEN GetCount(counts, name) + d ELSE counts[k]]

\* the body of the second loop for result i when it is routed again with
\* alt_name preferred: the object is overwritten with the new choice and
\* 0.9 of its confidence, and the counts follow
Rerouted(st, results, i, alt_name, agents, load) ==
    CHOOSE q \in
      { CHOOSE p \in
          { [cache |-> r.cache,
             history |-> [r.history EXCEPT
                 ![results[i]].result.agent_name = new_result.agent_name,
                 ![results[i]].result.confidence =
                     RatMul(new_result.confidence, <<9, 10>>)],
             counts |-> Bump(Bump(st.counts,
                                  st.history[results[i]].result.agent_name, 0 - 1),
                             alt_name, 1),
             raised |-> None] :
            new_result \in {r.history[r.result].result} } : TRUE :
        r \in {RouteIn([cache |-> st.cache, history |-> st.history],
                       FallbackPrefix \o st.history[results[i]].result.reasoning,
                       Some(alt_name), agents, load)} } : TRUE

\* a pass that lowers the confidence of every result over the limit
BalanceStep_AlwaysScales(st, results, i, agents, load) ==
    IF GetCount(st.counts, st.history[results[i]].result.agent_name) * Len(agents)
          > 2 * Len(results)
    THEN [st EXCEPT !.history[results[i]].result.confidence =
                        RatMul(@, <<9, 10>>)]
    ELSE st

\* _apply_load_balancing, the body of the second loop for result i.  st
\* holds the cache, the history (and so the objects), agent_task_counts and
\* what the loop raised.  A result of an agent with more than twice the
\* average number of tasks is routed again, with the first alternative that
\* has fewer than count - 1 tasks as the preferred agent.
BalanceStep(st, results, i, agents, load) ==
    IF Len(agents) = 0
    THEN [st EXCEPT !.raised = Some("ZeroDivisionError")]
    ELSE CHOOSE q \in
      { IF count * Len(agents) > 2 * Len(results) /\ fits # {}
        THEN Rerouted(st, results, i,
                 result.alternatives[
                     CHOOSE a \in fits : \A b \in fits : a <= b][1],
                 agents, load)
        ELSE st :
        result \in {st.history[results[i]].result},
        count \in {GetCount(st.counts,
                            st.history[results[i]].result.agent_name)},
        fits \in {{a \in 1..Len(st.history[results[i]].result.alternatives) :
                    GetCount(st.counts,
                        st.history[results[i]].result.alternatives[a][1])
                      < GetCount(st.counts,
                            st.history[results[i]].result.agent_name) - 1}} } :
      TRUE

\* _apply_load_balancing, the second loop from result i on
RECURSIVE BalanceFrom(_, _, _, _, _)
BalanceFrom(st, results, i, agents, load) ==
    IF i > Len(results) \/ st.raised # None THEN st
    ELSE CHOOSE q \in
      { BalanceFrom(next, results, j, agents, load) :
        next \in {BalanceStep(st, results, i, agents, load)},
        j \in {i + 1} } : TRUE

\* route_batch(tasks)
RouteBatchIn(st, tasks, agents, load) ==
    CHOOSE q \in
      { IF RouterConfig.enable_load_balancing
        THEN CHOOSE p \in
               { [results |-> routed_all.results,
                  st |-> BalanceFrom(start, routed_all.results, 1, agents, load)] :
                 start \in {[cache |-> routed_all.cache,
                             history |-> routed_all.history,
                             counts |-> TaskCounts(routed_all.history,
                                                   routed_all.results),
                             raised |-> None]} } : TRUE
        ELSE [results |-> routed_all.results,
              st |-> [cache |-> routed_all.cache, history |-> routed_all.history,
                      counts |-> <<>>, raised |-> None]] :
        routed_all \in {RouteAll(st, <<>>, tasks, agents, load)} } : TRUE

(***************************************************************************)
(* Orchestrator and executor.  One execute_parallel_tasks call is in       *)
(* flight at a time; its tasks are the coroutines execute_task, each       *)
(* suspended at most once, at the await on its worker.                     *)
(***************************************************************************)
MaxTasks == 3

\* execute_task calls in one run
MaxCalls == 2

\* task texts: analyze_task_type finds a keyword in the second only
IoText == <<"f", "e", "t", "c", "h">>
CpuText == <<"P", "a", "r", "s", "e">>

\* the dict a caller passes for one task
TaskInput(agent, task, context, priority) ==
    [agent |-> agent, task |-> task, context |-> context, priority |-> priority]

\* if task.context: a context that is None or an empty dict adds no message
Truthy(context) == context # None /\ context[1] # <<>>

\* async with self.semaphore, on leaving the block
Release(e) == [executors EXCEPT ![e].semaphore = @ + 1]

\* OptimizedExecutor(agents)
NewExecutor == [semaphore |-> MAX_ASYNC_CONCURRENT]

\* MultiAgentOrchestrator.__init__ with the given sub-agent configs
OrchInit(names) ==
    /\ sub_agents = names
    /\ executors = <<NewExecutor>>
    /\ call = IdleCall
    /\ task_history = 0
    /\ appended = <<>>
    /\ result_aggregator = NewAggregator(TRUE, DefaultThreshold)
    /\ twin_aggregator = NewAggregator(TRUE, DefaultThreshold)
    /\ agg_call = NoCall
    /\ fed_keys = {}
    /\ pending_results = <<>>
    /\ RestInit(names)

\* execute_parallel_tasks after executor.execute has returned the summary
ReturnBatch(c, summary) ==
    \E r \in {aggregate(result_aggregator, summary)} :
        /\ result_aggregator' = r.self
        /\ task_history' = task_history + Len(c.tasks)
        /\ call' = [c EXCEPT
               !.phase = "returned",
               !.finished = <<>>,
               !.summary = Some(summary),
               !.result = Some([overall_status |-> r.aggregated.overall_status,
                                total |-> r.aggregated.total_count,
                                success |-> r.aggregated.success_count,
                                failed |-> r.aggregated.failed_count,
                                results |-> r.aggregated.results,
                                summary |-> r.aggregated.summary,
                                task_breakdown |-> summary.task_breakdown])]

\* execute_parallel_tasks up to its first suspension: builds the Task
\* objects and enters executor.execute, which returns at once for an empty
\* batch and otherwise picks the mode and the dispatch order
ExecuteBatch(tasks, mode) ==
    /\ call.phase \in {"idle", "returned"}
    /\ result_aggregator.aggregation_history < MaxAggregations
    /\ \E cpu_bound_count \in {Cardinality({i \in 1..Len(tasks) :
                 analyze_task_type(Task(tasks[i].agent, tasks[i].task,
                     tasks[i].context, tasks[i].priority)) = "cpu_bound"})} :
       LET task_objects == [i \in 1..Len(tasks) |->
                              Task(tasks[i].agent, tasks[i].task,
                                   tasks[i].context, tasks[i].priority)]
           selected_mode == SelectMode(mode, cpu_bound_count, Len(tasks))
           c == [IdleCall EXCEPT
                    !.mode = mode,
                    !.selected_mode = selected_mode,
                    !.tasks = task_objects,
                    !.executor = IF other.phase = "gathering"
                                 THEN Len(executors) ELSE 1,
                    !.cpu_bound_count = cpu_bound_count]
       IN  IF tasks = <<>>
           THEN ReturnBatch([c EXCEPT !.selected_mode = mode],
                            EmptySummary(mode))
           ELSE /\ call' = [c EXCEPT
                       !.phase = IF selected_mode \in {"thread", "sequential"}
                                 THEN "blocking" ELSE "gathering",
                       !.sorted = IF selected_mode \in {"thread", "sequential"}
                                  THEN InputOrder(task_objects)
                                  ELSE SortedByPriority(task_objects),
                       !.pc = [k \in 1..Len(tasks) |-> "created"],
                       !.outcome = [k \in 1..Len(tasks) |-> None],
                       !.fate = [k \in 1..Len(tasks) |-> "none"]]
                /\ UNCHANGED <<result_aggregator, task_history>>
    /\ appended' = IF other.phase = "gathering" THEN appended ELSE <<>>
    /\ executors' = IF other.phase = "gathering" THEN executors
                    ELSE <<executors[Len(executors)]>>
    /\ UNCHANGED <<sub_agents, twin_aggregator, agg_call, fed_keys,
                   pending_results, restVars, routerVars>>

InFlight == call.phase \in {"gathering", "blocking"}

TaskAt(k) == call.tasks[call.sorted[k]]

\* the coroutine at position k ends with r: its slot is released; in the
\* blocking modes future.result() re-raises what the coroutine raised, and
\* execute and execute_parallel_tasks do not catch it
Complete(k, r, fate) ==
    /\ executors' = Release(call.executor)
    /\ call' = [call EXCEPT
           !.pc[k] = "done",
           !.outcome[k] = Some(r),
           !.fate[k] = fate,
           !.finished = Append(@, k),
           !.raised = call.phase = "blocking" /\ IsRaised(r),
           !.phase = IF call.phase = "blocking" /\ IsRaised(r)
                     THEN "returned" ELSE @]
    /\ UNCHANGED <<sub_agents, task_history, appended, aggVars, restVars, routerVars>>

\* execute_task from the semaphore to the await on the worker: gather starts
\* the coroutines in dispatch order; the blocking modes start one when all
\* before it are done
Admit_OnePerWorker(k) ==
    /\ InFlight
    /\ k \in 1..Len(call.tasks)
    /\ call.pc[k] = "created"
    /\ executors[call.executor].semaphore > 0
    /\ \A j \in 1..Len(call.tasks) :
          call.pc[j] = "running" => TaskAt(j).agent_name # TaskAt(k).agent_name
    /\ \A j \in 1..(k - 1) :
          IF call.phase = "gathering" THEN call.pc[j] # "created"
                                      ELSE call.pc[j] = "done"
    /\ IF TaskAt(k).agent_name \notin Range(sub_agents)
       THEN /\ call' = [call EXCEPT
                   !.pc[k] = "done",
                   !.outcome[k] = Some(UnknownAgentOutcome(TaskAt(k))),
                   !.fate[k] = "unknown",
                   !.finished = Append(@, k),
                   !.tasks[call.sorted[k]] = Submitted(@, call.selected_mode)]
            /\ UNCHANGED <<executors, appended>>
       ELSE /\ call' = [call EXCEPT !.pc[k] = "running",
                                    !.tasks[call.sorted[k]] =
                                        Analyzed(Submitted(@, call.selected_mode))]
            /\ executors' = [executors EXCEPT ![call.executor].semaphore = @ - 1]
            /\ appended' = appended
                 \o (IF Truthy(TaskAt(k).context)
                     THEN << <<TaskAt(k).agent_name, "context", call.sorted[k],
                               FormatContext(ContextHeader, TaskAt(k).context[1])>> >>
                     ELSE <<>>)
                 \o << <<TaskAt(k).agent_name, "task", call.sorted[k]>> >>
    /\ UNCHANGED <<sub_agents, task_history, aggVars, restVars, routerVars>>

\* execute_task with the task description appended before the context
Admit_TaskBeforeContext(k) ==
    /\ InFlight
    /\ k \in 1..Len(call.tasks)
    /\ call.pc[k] = "created"
    /\ executors[call.executor].semaphore > 0
    /\ \A j \in 1..(k - 1) :
          IF call.phase = "gathering" THEN call.pc[j] # "created"
                                      ELSE call.pc[j] = "done"
    /\ IF TaskAt(k).agent_name \notin Range(sub_agents)
       THEN /\ call' = [call EXCEPT
                   !.pc[k] = "done",
                   !.outcome[k] = Some(UnknownAgentOutcome(TaskAt(k))),
                   !.fate[k] = "unknown",
                   !.finished = Append(@, k),
                   !.tasks[call.sorted[k]] = Submitted(@, call.selected_mode)]
            /\ UNCHANGED <<executors, appended>>
       ELSE /\ call' = [call EXCEPT !.pc[k] = "running",
                                    !.tasks[call.sorted[k]] =
                                        Analyzed(Submitted(@, call.selected_mode))]
            /\ executors' = [executors EXCEPT ![call.executor].semaphore = @ - 1]
            /\ appended' = appended
                 \o << <<TaskAt(k).agent_name, "task", call.sorted[k]>> >>
                 \o (IF Truthy(TaskAt(k).context)
                     THEN << <<TaskAt(k).agent_name, "context", call.sorted[k],
                               FormatContext(ContextHeader, TaskAt(k).context[1])>> >>
                     ELSE <<>>)
    /\ UNCHANGED <<sub_agents, task_history, aggVars, restVars, routerVars>>

Admit(k) ==
    /\ InFlight
    /\ k \in 1..Len(call.tasks)
    /\ call.pc[k] = "created"
    /\ executors[call.executor].semaphore > 0
    /\ \A j \in 1..(k - 1) :
          IF call.phase = "gathering" THEN call.pc[j] # "created"
                                      ELSE call.pc[j] = "done"
    /\ IF TaskAt(k).agent_name \notin Range(sub_agents)
       THEN /\ call' = [call EXCEPT
                   !.pc[k] = "done",
                   !.outcome[k] = Some(UnknownAgentOutcome(TaskAt(k))),
                   !.fate[k] = "unknown",
                   !.finished = Append(@, k),
                   !.tasks[call.sorted[k]] = Submitted(@, call.selected_mode)]
            /\ UNCHANGED <<executors, appended>>
       ELSE /\ call' = [call EXCEPT !.pc[k] = "running",
                                    !.tasks[call.sorted[k]] =
                                        Analyzed(Submitted(@, call.selected_mode))]
            /\ executors' = [executors EXCEPT ![call.executor].semaphore = @ - 1]
            /\ appended' = appended
                 \o (IF Truthy(TaskAt(k).context)
                     THEN << <<TaskAt(k).agent_name, "context", call.sorted[k],
                               FormatContext(ContextHeader, TaskAt(k).context[1])>> >>
                     ELSE <<>>)
                 \o << <<TaskAt(k).agent_name, "task", call.sorted[k]>> >>
    /\ UNCHANGED <<sub_agents, task_history, aggVars, restVars, routerVars>>

Running(k) == InFlight /\ k \in 1..Len(call.tasks) /\ call.pc[k] = "running"

\* agent.run() returns
WorkerReturns_LooksUpAgain(k) ==
    /\ Running(k)
    /\ IF TaskAt(k).agent_name \in Range(sub_agents)
       THEN Complete(k, SuccessOutcome(TaskAt(k), "done"), "returned")
       ELSE Complete(k, UnknownAgentOutcome(TaskAt(k)), "unknown")

WorkerReturns(k) ==
    /\ Running(k)
    /\ Complete(k, SuccessOutcome(TaskAt(k), "done"), "returned")

\* agent.run() raises: except Exception
WorkerRaises_Uncaught(k) ==
    /\ Running(k)
    /\ Complete(k, Raised("boom"), "raised")

WorkerRaises(k) ==
    /\ Running(k)
    /\ Complete(k, ErrorOutcome(TaskAt(k), "boom"), "raised")

\* wait_for cancels agent.run() when task.timeout has passed: except
\* asyncio.TimeoutError
TimeoutExpires_SlotKept(k) ==
    /\ Running(k)
    /\ call' = [call EXCEPT !.pc[k] = "done",
                            !.outcome[k] = Some(TimeoutOutcome(TaskAt(k))),
                            !.fate[k] = "timed_out",
                            !.finished = Append(@, k)]
    /\ UNCHANGED <<executors, sub_agents, task_history, appended, aggVars, restVars, routerVars>>

TimeoutExpires(k) ==
    /\ Running(k)
    /\ Complete(k, TimeoutOutcome(TaskAt(k)), "timed_out")

\* the results list execute gets from the mode's function
CollectResults(c) ==
    LET results == [k \in 1..Len(c.tasks) |-> c.outcome[k][1]]
    IN  IF c.phase = "gathering" THEN ProcessGathered(results) ELSE results

\* gather or the blocking loop is through: execute builds the summary and
\* execute_parallel_tasks aggregates it and returns
FinishBatch ==
    /\ InFlight
    /\ \A k \in 1..Len(call.tasks) : call.pc[k] = "done"
    /\ \E results \in {CollectResults(call)} :
       \E summary \in {Summary(call.selected_mode, Len(call.tasks), results,
                                call.cpu_bound_count)} :
          ReturnBatch(call, summary)
    /\ UNCHANGED <<sub_agents, executors, appended, twin_aggregator, agg_call,
                   fed_keys, pending_results, restVars, routerVars>>

\* self.executor = OptimizedExecutor(self.sub_agents): a call in flight
\* keeps the executor it entered
ReplaceExecutor ==
    IF other.phase # "idle" THEN Append(executors, NewExecutor)
    ELSE IF call.phase = "gathering"
    THEN <<executors[call.executor], NewExecutor>>
    ELSE <<NewExecutor>>

\* the event loop suspends the caller of call at an await and resumes the
\* other caller; a blocking mode holds the event loop
SwitchCall ==
    /\ call.phase # "blocking"
    /\ call' = other
    /\ other' = call
    /\ UNCHANGED <<sub_agents, executors, task_history, appended, aggVars,
                   last_call, shared_context, delegation, main_agent, routerVars>>

\* add_sub_agent(name, config): raises ValueError for a registered name
\* before anything else; a blocking mode holds the event loop, so nothing
\* else runs then.  The router reads the same dict object; its agent_load
\* is not touched.
add_sub_agent_Overwrites(name) ==
    /\ call.phase # "blocking"
    /\ sub_agents' = IF name \in Range(sub_agents) THEN sub_agents
                     ELSE Append(sub_agents, name)
    /\ executors' = ReplaceExecutor
    /\ last_call' = OpCall("add_sub_agent", Some(name), None)
    /\ UNCHANGED <<call, task_history, appended, aggVars, other,
                   shared_context, delegation, main_agent, routerVars>>

add_sub_agent(name) ==
    /\ call.phase # "blocking"
    /\ IF name \in Range(sub_agents)
       THEN /\ last_call' = OpCall("add_sub_agent", Some(name), Some("ValueError"))
            /\ UNCHANGED <<sub_agents, executors>>
       ELSE /\ sub_agents' = Append(sub_agents, name)
            /\ executors' = ReplaceExecutor
            /\ last_call' = OpCall("add_sub_agent", Some(name), None)
    /\ UNCHANGED <<call, task_history, appended, aggVars, other,
                   shared_context, delegation, main_agent, routerVars>>

\* a remove_sub_agent that replaces the executor and keeps the agent
remove_sub_agent_KeepsAgent(name) ==
    /\ call.phase # "blocking"
    /\ IF name \notin Range(sub_agents)
       THEN /\ last_call' = OpCall("remove_sub_agent", Some(name), Some("KeyError"))
            /\ UNCHANGED <<sub_agents, executors>>
       ELSE /\ sub_agents' = sub_agents
            /\ executors' = ReplaceExecutor
            /\ last_call' = OpCall("remove_sub_agent", Some(name), None)
    /\ UNCHANGED <<call, task_history, appended, aggVars, other,
                   shared_context, delegation, main_agent, routerVars>>

\* remove_sub_agent(name): raises KeyError for a name that is not registered
remove_sub_agent(name) ==
    /\ call.phase # "blocking"
    /\ IF name \notin Range(sub_agents)
       THEN /\ last_call' = OpCall("remove_sub_agent", Some(name), Some("KeyError"))
            /\ UNCHANGED <<sub_agents, executors>>
       ELSE /\ sub_agents' = SelectSeq(sub_agents, LAMBDA n : n # name)
            /\ executors' = ReplaceExecutor
            /\ last_call' = OpCall("remove_sub_agent", Some(name), None)
    /\ UNCHANGED <<call, task_history, appended, aggVars, other,
                   shared_context, delegation, main_agent, routerVars>>

\* get_status(), its fields on the registry and the task history
get_status ==
    [sub_agent_count |-> Len(sub_agents),
     sub_agent_names |-> sub_agents,
     task_history_count |-> task_history]

\* dict.update(context) on a dict held as a function from keys to values;
\* context is a tuple of <<key, value>> pairs
DictUpdate(d, context) ==
    LET keys == {context[i][1] : i \in 1..Len(context)}
        last(k) == CHOOSE i \in 1..Len(context) :
                      /\ context[i][1] = k
                      /\ \A j \in (i + 1)..Len(context) : context[j][1] # k
    IN  [k \in DOMAIN d \cup keys |->
            IF k \in keys THEN context[last(k)][2] ELSE d[k]]

\* the add_user_message calls of the orchestrator's execute_task on the
\* main agent: the context, when truthy, then the task
MainMessages(context) ==
    (IF Truthy(context)
     THEN << <<"context", FormatContext(SharedContextHeader, context[1])>> >>
     ELSE <<>>)
    \o << <<"task">> >>

\* execute_task(task, context, mode) up to its await: a truthy context is
\* merged into shared_context and the main agent gets its messages.  One
\* execute_task call is in flight at a time.
execute_task(context) ==
    /\ call.phase # "blocking"
    /\ main_agent.phase # "running"
    /\ main_agent.calls < MaxCalls
    /\ shared_context' = IF Truthy(context)
                         THEN DictUpdate(shared_context, context[1])
                         ELSE shared_context
    /\ main_agent' = [main_agent EXCEPT
           !.phase = "running",
           !.context = context,
           !.messages = @ \o MainMessages(context),
           !.calls = @ + 1,
           !.result = None]
    /\ last_call' = OpCall("execute_task", None, None)
    /\ UNCHANGED <<orchVars, aggVars, other, delegation, routerVars>>

\* execute_task after its await: main_agent.run() returned or raised; one
\* entry is appended to task_history in both cases and the call returns a
\* dict
ExecuteTaskEnds_FailureNotRecorded(success) ==
    /\ call.phase # "blocking"
    /\ main_agent.phase = "running"
    /\ main_agent' = [main_agent EXCEPT !.phase = "returned",
                                        !.result = Some([success |-> success])]
    /\ task_history' = IF success THEN task_history + 1 ELSE task_history
    /\ UNCHANGED <<sub_agents, executors, call, appended, aggVars, other,
                   last_call, shared_context, delegation, routerVars>>

ExecuteTaskEnds(success) ==
    /\ call.phase # "blocking"
    /\ main_agent.phase = "running"
    /\ main_agent' = [main_agent EXCEPT !.phase = "returned",
                                        !.result = Some([success |-> success])]
    /\ task_history' = task_history + 1
    /\ UNCHANGED <<sub_agents, executors, call, appended, aggVars, other,
                   last_call, shared_context, delegation, routerVars>>

MainAgentReturns == ExecuteTaskEnds(TRUE)
MainAgentRaises == ExecuteTaskEnds(FALSE)

\* clear_history(): self.task_history.clear()
clear_history ==
    /\ call.phase # "blocking"
    /\ task_history' = 0
    /\ last_call' = OpCall("clear_history", None, None)
    /\ UNCHANGED <<sub_agents, executors, call, appended, aggVars, other,
                   shared_context, delegation, main_agent, routerVars>>

(***************************************************************************)
(* The router and delegate_task as operations of the orchestrator.  The    *)
(* router's agents dict is orchestrator.sub_agents, the same object.       *)
(***************************************************************************)
\* task_router.route(task, preferred_agent)
route(task, preferred_agent) ==
    /\ call.phase # "blocking"
    /\ \/ Len(route_history) < MaxRoutes
       \/ CacheKey(task, preferred_agent) \in DOMAIN route_cache
    /\ \E r \in {RouteIn([cache |-> route_cache, history |-> route_history],
                         task, preferred_agent, sub_agents, agent_load)} :
          /\ Len(r.history) <= MaxRoutes
          /\ route_cache' = r.cache
          /\ route_history' = r.history
          /\ routed' = Some(<<r.result>>)
    /\ last_call' = OpCall("route", None, None)
    /\ UNCHANGED <<orchVars, aggVars, other, shared_context, delegation, main_agent, agent_load>>

\* task_router.route_batch(tasks): what the routes stored stays stored when
\* _apply_load_balancing raises
route_batch(tasks) ==
    /\ call.phase # "blocking"
    /\ \/ Len(route_history) < MaxRoutes
       \/ \A i \in 1..Len(tasks) :
             CacheKey(tasks[i].task, tasks[i].preferred_agent) \in DOMAIN route_cache
    /\ \E r \in {RouteBatchIn([cache |-> route_cache, history |-> route_history],
                              tasks, sub_agents, agent_load)} :
          /\ Len(r.st.history) <= MaxRoutes
          /\ route_cache' = r.st.cache
          /\ route_history' = r.st.history
          /\ routed' = IF r.st.raised = None THEN Some(r.results) ELSE None
          /\ last_call' = OpCall("route_batch", None, r.st.raised)
    /\ UNCHANGED <<orchVars, aggVars, other, shared_context, delegation, main_agent, agent_load>>

\* task_router.add_agent_load(agent_name): names outside agent_load are
\* ignored
add_agent_load(agent_name) ==
    /\ call.phase # "blocking"
    /\ GetCount(agent_load, agent_name) < MaxLoad
    /\ agent_load' = IF agent_name \in DOMAIN agent_load
                     THEN [agent_load EXCEPT ![agent_name] = @ + 1]
                     ELSE agent_load
    /\ UNCHANGED <<orchVars, aggVars, restVars, route_cache, route_history, routed>>

\* task_router.remove_agent_load(agent_name)
remove_agent_load(agent_name) ==
    /\ call.phase # "blocking"
    /\ agent_load' = IF agent_name \in DOMAIN agent_load /\ agent_load[agent_name] > 0
                     THEN [agent_load EXCEPT ![agent_name] = @ - 1]
                     ELSE agent_load
    /\ UNCHANGED <<orchVars, aggVars, restVars, route_cache, route_history, routed>>

\* task_router.clear_cache(): the RouteResult objects stay in the history
clear_cache ==
    /\ call.phase # "blocking"
    /\ route_cache' = <<>>
    /\ last_call' = OpCall("clear_cache", None, None)
    /\ UNCHANGED <<orchVars, aggVars, other, shared_context, delegation,
                   main_agent, route_history, agent_load, routed>>

\* the add_user_message calls of delegate_task: the context, when truthy,
\* then the task
Items(d) ==
    CHOOSE items \in [1..Cardinality(DOMAIN d) -> {<<k, d[k]>> : k \in DOMAIN d}] :
        Range(items) = {<<k, d[k]>> : k \in DOMAIN d}

DelegateMessages_SharedContext(agent_name, context) ==
    (IF Truthy(context) \/ DOMAIN shared_context # {}
     THEN << <<agent_name, "context",
               FormatContext(SharedContextHeader,
                   Items(IF Truthy(context)
                         THEN DictUpdate(shared_context, context[1])
                         ELSE shared_context))>> >>
     ELSE <<>>)
    \o << <<agent_name, "task">> >>

DelegateMessages(agent_name, context) ==
    (IF Truthy(context)
     THEN << <<agent_name, "context", FormatContext(SharedContextHeader, context[1])>> >>
     ELSE <<>>)
    \o << <<agent_name, "task">> >>

\* delegate_task(agent_name, task, context) up to its await: get_sub_agent
\* raises KeyError for a name that is not registered
delegate_task_AppendsFirst(agent_name, context) ==
    /\ call.phase # "blocking"
    /\ delegation.phase # "running"
    /\ IF agent_name \notin Range(sub_agents)
       THEN /\ delegation' = [phase |-> "raised", agent |-> Some(agent_name),
                              context |-> context,
                              messages |-> DelegateMessages(agent_name, context),
                              result |-> None]
            /\ last_call' = OpCall("delegate_task", Some(agent_name), Some("KeyError"))
       ELSE /\ delegation' = [phase |-> "running", agent |-> Some(agent_name),
                              context |-> context,
                              messages |-> DelegateMessages(agent_name, context),
                              result |-> None]
            /\ last_call' = OpCall("delegate_task", Some(agent_name), None)
    /\ UNCHANGED <<orchVars, aggVars, other, shared_context, main_agent, routerVars>>

delegate_task(agent_name, context) ==
    /\ call.phase # "blocking"
    /\ delegation.phase # "running"
    /\ IF agent_name \notin Range(sub_agents)
       THEN /\ delegation' = [phase |-> "raised", agent |-> Some(agent_name),
                              context |-> context,
                              messages |-> <<>>, result |-> None]
            /\ last_call' = OpCall("delegate_task", Some(agent_name), Some("KeyError"))
       ELSE /\ delegation' = [phase |-> "running", agent |-> Some(agent_name),
                              context |-> context,
                              messages |-> DelegateMessages(agent_name, context),
                              result |-> None]
            /\ last_call' = OpCall("delegate_task", Some(agent_name), None)
    /\ UNCHANGED <<orchVars, aggVars, other, shared_context, main_agent, routerVars>>

\* a delegate_task that resumed although a blocking mode holds the loop
DelegateEnds_WhileBlocked(success, payload) ==
    /\ delegation.phase = "running"
    /\ delegation' = [delegation EXCEPT
           !.phase = "returned",
           !.result = Some([success |-> success, agent |-> delegation.agent,
                            result |-> IF success THEN Some(payload) ELSE None,
                            error |-> IF success THEN None ELSE Some(payload)])]
    /\ UNCHANGED <<orchVars, aggVars, other, last_call, shared_context, main_agent,
                   routerVars>>

\* delegate_task after its await: agent.run() returned, raised, or wait_for
\* ran into the timeout; the call returns a dict in all three cases
DelegateEnds(success, payload) ==
    /\ call.phase # "blocking"
    /\ delegation.phase = "running"
    /\ delegation' = [delegation EXCEPT
           !.phase = "returned",
           !.result = Some([success |-> success, agent |-> delegation.agent,
                            result |-> IF success THEN Some(payload) ELSE None,
                            error |-> IF success THEN None ELSE Some(payload)])]
    /\ UNCHANGED <<orchVars, aggVars, other, last_call, shared_context, main_agent,
                   routerVars>>

DelegateReturns == DelegateEnds(TRUE, "done")
DelegateRaises == DelegateEnds(FALSE, "boom")
DelegateTimesOut == DelegateEnds(FALSE, "timed out")

\* the worker's run() raised exception: asyncio.TimeoutError is caught by the
\* first except clause, which writes the deadline's message; any other
\* Exception is caught by the second, which writes str(e)
DelegateWorkerRaises(exception) ==
    DelegateEnds(FALSE, IF exception.type = "TimeoutError"
                        THEN "timed out"
                        ELSE exception.message)

(***************************************************************************)
(* Executor specification: one batch through Executor.execute, any mode,   *)
(* with workers that return, raise or run into their timeout, and a task   *)
(* for a worker that is not registered.                                    *)
(***************************************************************************)
Modes == {"auto", "parallel", "sequential", "thread"}

ExecTaskInputs ==
    { TaskInput("coder", IoText, None, 0),
      TaskInput("designer", CpuText, Some(<< <<"lang", "py">> >>), 1),
      TaskInput("ghost", IoText, Some(<<>>), 0) }

ExecInit == OrchInit(<<"coder", "designer">>)

ExecNext ==
    \/ /\ call.phase = "idle"
       /\ \E tasks \in SeqsUpTo(ExecTaskInputs, MaxTasks), mode \in Modes :
             ExecuteBatch(tasks, mode)
    \/ \E k \in 1..MaxTasks : Admit(k)
    \/ \E k \in 1..MaxTasks : WorkerReturns(k)
    \/ \E k \in 1..MaxTasks : WorkerRaises(k)
    \/ \E k \in 1..MaxTasks : TimeoutExpires(k)
    \/ FinishBatch

SpecExec == ExecInit /\ [][ExecNext]_vars

\* Fairness: the event loop runs every coroutine that is ready, and every
\* task's timeout is finite, so its timer fires if the worker has not ended
\* before.  Nothing is assumed about a worker ever returning.
LiveSpecExec ==
    /\ SpecExec
    /\ \A k \in 1..MaxTasks : WF_vars(Admit(k)) /\ WF_vars(TimeoutExpires(k))
    /\ WF_vars(FinishBatch)

(***************************************************************************)
(* Orchestrator specification: batches one after another through           *)
(* execute_parallel_tasks, with sub-agents added and removed.              *)
(***************************************************************************)
CoderTask == TaskInput("coder", IoText, None, 0)
DesignerTask == TaskInput("designer", IoText, None, 0)
CpuTask == TaskInput("designer", CpuText, Some(<< <<"lang", "py">> >>), 1)

\* the batches callers submit: empty, one task, the same worker twice, two
\* workers, three tasks (which auto runs in parallel mode), and batches
\* with all and with half of the tasks cpu_bound
OrchBatches ==
    { <<>>,
      <<CoderTask>>,
      <<CoderTask, CoderTask>>,
      <<CoderTask, DesignerTask>>,
      <<DesignerTask, CoderTask, CoderTask>>,
      <<CpuTask>>,
      <<CoderTask, CpuTask>> }

OrchModes == {"auto", "parallel"}

Init == OrchInit(<<"coder">>)

Next ==
    \/ \E tasks \in OrchBatches, mode \in OrchModes :
          ExecuteBatch(tasks, mode)
    \/ \E k \in 1..MaxTasks : Admit(k)
    \/ \E k \in 1..MaxTasks : WorkerReturns(k)
    \/ \E k \in 1..MaxTasks : WorkerRaises(k)
    \/ \E k \in 1..MaxTasks : TimeoutExpires(k)
    \/ FinishBatch
    \/ \E name \in {"designer"} \ Range(sub_agents) : add_sub_agent(name)
    \/ \E name \in {"designer"} \cap Range(sub_agents) : remove_sub_agent(name)

Spec == Init /\ [][Next]_vars

(***************************************************************************)
(* Admission specification: a caller submits a parallel batch that fills   *)
(* the semaphore and is suspended with its workers still running; a        *)
(* sub-agent is added; a second caller submits a task.                     *)
(***************************************************************************)
FullBatch == [i \in 1..MAX_ASYNC_CONCURRENT |-> CoderTask]

SlotsInit == OrchInit(<<"coder">>)

SlotsNext ==
    \/ /\ call.phase = "idle"
       /\ ExecuteBatch(IF other.phase = "idle" THEN FullBatch ELSE <<CoderTask>>,
                       "parallel")
    \/ \E k \in 1..MAX_ASYNC_CONCURRENT : Admit(k)
    \/ SwitchCall
    \/ \E name \in {"designer"} : add_sub_agent(name)

SpecSlots == SlotsInit /\ [][SlotsNext]_vars

(***************************************************************************)
(* Registry specification: sub-agents are added and removed, under names   *)
(* registered or not, while a batch is in flight and the main agent works  *)
(* on tasks with and without context.                                      *)
(***************************************************************************)
RegistryNames == {"coder", "designer"}

RegistryContexts == {None, Some(<< <<"lang", "py">> >>)}

RegistryInit == OrchInit(<<"coder">>)

RegistryNext ==
    \/ \E name \in RegistryNames : add_sub_agent(name)
    \/ \E name \in RegistryNames : remove_sub_agent(name)
    \/ \E context \in RegistryContexts : execute_task(context)
    \/ MainAgentReturns
    \/ MainAgentRaises
    \/ /\ call.phase = "idle"
       /\ ExecuteBatch(<<CoderTask>>, "parallel")
    \/ Admit(1)
    \/ WorkerReturns(1)
    \/ FinishBatch

SpecRegistry == RegistryInit /\ [][RegistryNext]_vars

(***************************************************************************)
(* Delegation specification: tasks are delegated to sub-agents by name,    *)
(* registered or not, while sub-agents come and go and the router is in    *)
(* use.                                                                    *)
(***************************************************************************)
DebugText == <<"D", "e", "b", "u", "g", " ", "t", "h", "e", " ", "c", "o", "d", "e">>

DelegateInit == OrchInit(<<"coder">>)

DelegateNext ==
    \/ \E name \in RegistryNames : add_sub_agent(name)
    \/ \E name \in RegistryNames : remove_sub_agent(name)
    \/ \E name \in RegistryNames, context \in RegistryContexts :
          delegate_task(name, context)
    \/ DelegateReturns
    \/ DelegateRaises
    \/ DelegateTimesOut
    \/ route(DebugText, None)
    \/ add_agent_load("coder")
    \/ remove_agent_load("coder")

SpecDelegate == DelegateInit /\ [][DelegateNext]_vars

(***************************************************************************)
(* Router specification: tasks are routed one by one and in batches, with  *)
(* and without a preferred agent, while the coder is added and removed     *)
(* and its load counter moves.  The orchestrator starts without            *)
(* sub-agents or with three of them.                                       *)
(***************************************************************************)
PosterText ==
    <<"d", "e", "s", "i", "g", "n", " ", "a", " ", "p", "o", "s", "t", "e", "r">>

RouterTexts == {DebugText, PosterText}

\* the dict route_batch takes for one task
TaskInfo(task, preferred_agent) == [task |-> task, preferred_agent |-> preferred_agent]

RouterBatches ==
    { <<>>,
      <<TaskInfo(DebugText, None)>>,
      <<TaskInfo(DebugText, None), TaskInfo(DebugText, None),
        TaskInfo(DebugText, None)>> }

RouterInit ==
    \E names \in {<<>>, <<"coder", "designer", "tester">>} : OrchInit(names)

RouterNext ==
    \/ add_sub_agent("coder")
    \/ remove_sub_agent("coder")
    \/ \E task \in RouterTexts, preferred_agent \in {None, Some("coder")} :
          route(task, preferred_agent)
    \/ \E tasks \in RouterBatches : route_batch(tasks)
    \/ add_agent_load("coder")
    \/ remove_agent_load("coder")
    \/ clear_cache

SpecRouter == RouterInit /\ [][RouterNext]_vars

(***************************************************************************)
(* History specification: the main agent works on tasks, one batch of two  *)
(* runs in parallel mode, a task is delegated and one is routed,           *)
(* sub-agents come and go, and the task history is cleared at any time.    *)
(***************************************************************************)
HistoryInit == OrchInit(<<"coder">>)

HistoryNext ==
    \/ execute_task(None)
    \/ MainAgentReturns
    \/ MainAgentRaises
    \/ clear_history
    \/ /\ call.phase = "idle"
       /\ ExecuteBatch(<<CoderTask, CpuTask>>, "parallel")
    \/ \E k \in 1..MaxTasks : Admit(k)
    \/ \E k \in 1..MaxTasks : WorkerReturns(k)
    \/ FinishBatch
    \/ /\ delegation.phase = "idle"
       /\ delegate_task("coder", None)
    \/ DelegateReturns
    \/ add_sub_agent("designer")
    \/ remove_sub_agent("designer")
    \/ route(DebugText, None)

SpecHistory == HistoryInit /\ [][HistoryNext]_vars

(***************************************************************************)
(* Context specification: the main agent works on tasks with and without   *)
(* context, with keys set before and new ones, while tasks with contexts   *)
(* of their own are delegated and run in a parallel batch.                 *)
(***************************************************************************)
PyContext == Some(<< <<"lang", "py">> >>)
GoContext == Some(<< <<"lang", "go">>, <<"os", "linux">> >>)

\* no context, an empty dict, and two dicts with a key in common
MainContexts == {None, Some(<<>>), PyContext, GoContext}

ContextInit == OrchInit(<<"coder", "designer">>)

ContextNext ==
    \/ \E context \in MainContexts : execute_task(context)
    \/ MainAgentReturns
    \/ \E context \in {None, PyContext} : delegate_task("coder", context)
    \/ DelegateReturns
    \/ /\ call.phase = "idle"
       /\ ExecuteBatch(<<CoderTask, CpuTask>>, "parallel")
    \/ \E k \in 1..MaxTasks : Admit(k)
    \/ \E k \in 1..MaxTasks : WorkerReturns(k)
    \/ FinishBatch

SpecContext == ContextInit /\ [][ContextNext]_vars

(***************************************************************************)
(* Race specification: a parallel batch with two tasks for the designer    *)
(* and one for the coder is in flight while the designer is removed and    *)
(* added.                                                                  *)
(***************************************************************************)
RaceBatch == <<DesignerTask, DesignerTask, CoderTask>>

RaceInit == OrchInit(<<"coder", "designer">>)

RaceNext ==
    \/ /\ call.phase = "idle"
       /\ ExecuteBatch(RaceBatch, "parallel")
    \/ \E k \in 1..MaxTasks : Admit(k)
    \/ \E k \in 1..MaxTasks : WorkerReturns(k)
    \/ \E k \in 1..MaxTasks : WorkerRaises(k)
    \/ \E k \in 1..MaxTasks : TimeoutExpires(k)
    \/ FinishBatch
    \/ remove_sub_agent("designer")
    \/ add_sub_agent("designer")

SpecRace == RaceInit /\ [][RaceNext]_vars

(***************************************************************************)
(* Blocking specification: batches in sequential, thread and parallel mode *)
(* on an event loop that also carries a second caller of execute, a        *)
(* delegation, a main agent task and, while no second caller is there,     *)
(* registry changes.                                                       *)
(***************************************************************************)
BlockingModes == {"sequential", "thread", "parallel"}

BlockingInit == OrchInit(<<"coder", "designer">>)

BlockingNext ==
    \/ /\ call.phase = "idle"
       /\ \E mode \in BlockingModes : ExecuteBatch(<<CoderTask, CpuTask>>, mode)
    \/ \E k \in 1..MaxTasks : Admit(k)
    \/ \E k \in 1..MaxTasks : WorkerReturns(k)
    \/ FinishBatch
    \/ SwitchCall
    \/ /\ main_agent.phase = "idle"
       /\ execute_task(None)
    \/ MainAgentReturns
    \/ /\ delegation.phase = "idle"
       /\ delegate_task("coder", None)
    \/ DelegateReturns
    \/ /\ other.phase = "idle"
       /\ remove_sub_agent("designer")
    \/ /\ other.phase = "idle"
       /\ add_sub_agent("designer")

SpecBlocking == BlockingInit /\ [][BlockingNext]_vars

(***************************************************************************)
(* Message specification: one batch, in parallel or sequential mode, of    *)
(* tasks without a context, with an empty context and with a context, for  *)
(* registered workers and for a worker that is not registered.             *)
(***************************************************************************)
MessageTaskInputs ==
    { TaskInput("coder", IoText, None, 0),
      TaskInput("coder", IoText, Some(<<>>), 1),
      TaskInput("designer", CpuText, PyContext, 0),
      TaskInput("ghost", IoText, PyContext, 1) }

MessageInit == OrchInit(<<"coder", "designer">>)

MessageNext ==
    \/ /\ call.phase = "idle"
       /\ \E tasks \in SeqsUpTo(MessageTaskInputs, MaxTasks),
             mode \in {"parallel", "sequential"} :
             ExecuteBatch(tasks, mode)
    \/ \E k \in 1..MaxTasks : Admit(k)
    \/ \E k \in 1..MaxTasks : WorkerReturns(k)
    \/ \E k \in 1..MaxTasks : WorkerRaises(k)
    \/ FinishBatch

SpecMessages == MessageInit /\ [][MessageNext]_vars

(***************************************************************************)
(* Choice specification: single tasks are routed, with and without a       *)
(* preferred agent, on a registry of two agents or of all seven agent      *)
(* types, after the coder was removed and added again, which moves it to   *)
(* the end of the registry, and after its load counter rose.               *)
(***************************************************************************)
\* "编写一个 Python 函数"
FunctionText ==
    <<"U+7F16", "U+5199", "U+4E00", "U+4E2A", " ", "P", "y", "t", "h", "o", "n",
      " ", "U+51FD", "U+6570">>

ChoiceTexts == {FunctionText, PosterText, IoText}

ChoicePreferred == {None, Some("coder"), Some("designer")}

ChoiceInit ==
    \E names \in {<<"coder", "designer">>, AgentTypes} : OrchInit(names)

ChoiceNext ==
    \/ \E task \in ChoiceTexts, preferred_agent \in ChoicePreferred :
          route(task, preferred_agent)
    \/ /\ route_history = <<>>
       /\ remove_sub_agent("coder")
    \/ /\ route_history = <<>>
       /\ add_sub_agent("coder")
    \/ /\ route_history = <<>>
       /\ add_agent_load("coder")

SpecChoice == ChoiceInit /\ [][ChoiceNext]_vars

(***************************************************************************)
(* Balance specification: the coder is the only worker when the first      *)
(* task is routed; designer and tester are added, and batches are routed   *)
(* that get results from the cache and new ones.                           *)
(***************************************************************************)
BalanceBatches ==
    { <<TaskInfo(DebugText, None)>>,
      <<TaskInfo(DebugText, None), TaskInfo(DebugText, None),
        TaskInfo(DebugText, None)>>,
      <<TaskInfo(DebugText, None), TaskInfo(PosterText, None)>> }

BalanceInit == OrchInit(<<"coder">>)

BalanceNext ==
    \/ route(DebugText, None)
    \/ \E name \in {"designer", "tester"} : add_sub_agent(name)
    \/ \E tasks \in BalanceBatches : route_batch(tasks)

SpecBalance == BalanceInit /\ [][BalanceNext]_vars

(***************************************************************************)
(* Worker specification: coder and designer are added and removed while    *)
(* tasks are delegated to them, batches name them and tasks are routed.    *)
(***************************************************************************)
WorkerNames == {"coder", "designer"}

WorkerBatch == <<DesignerTask, CoderTask>>

WorkerInit == OrchInit(<<"coder">>)

WorkerNext ==
    \/ \E name \in WorkerNames : add_sub_agent(name)
    \/ \E name \in WorkerNames : remove_sub_agent(name)
    \/ \E name \in WorkerNames : delegate_task(name, None)
    \/ DelegateReturns
    \/ /\ call.phase = "idle"
       /\ ExecuteBatch(WorkerBatch, "parallel")
    \/ \E k \in 1..MaxTasks : Admit(k)
    \/ \E k \in 1..MaxTasks : WorkerReturns(k)
    \/ FinishBatch
    \/ route(PosterText, None)

SpecWorkers == WorkerInit /\ [][WorkerNext]_vars

(***************************************************************************)
(* delegate_task with a worker that returns, that raises an exception of   *)
(* its own, or that is cut off by the deadline.  The exceptions a worker   *)
(* can raise include asyncio.TimeoutError (its own request timed out) and  *)
(* an Exception whose text is the text of the deadline's message.          *)
(***************************************************************************)
WorkerExceptions ==
    { [type |-> "Exception", message |-> "boom"],
      [type |-> "Exception", message |-> "timed out"],
      [type |-> "TimeoutError", message |-> "request timed out"] }

FailureInit == OrchInit(<<"coder">>)

FailureNext ==
    \/ \E name \in RegistryNames : add_sub_agent(name)
    \/ \E name \in RegistryNames : remove_sub_agent(name)
    \/ \E name \in RegistryNames, context \in RegistryContexts :
          delegate_task(name, context)
    \/ DelegateReturns
    \/ \E exception \in WorkerExceptions : DelegateWorkerRaises(exception)
    \/ DelegateTimesOut

SpecFailure == FailureInit /\ [][FailureNext]_vars

(***************************************************************************)
(* The aggregator fed with outcomes of which several fail: two failures    *)
(* with the same dedup key and different error texts, and a failure of     *)
(* another worker.                                                         *)
(***************************************************************************)
ErrorOutcomes ==
    { Outcome(Some("coder"), Some("io_bound"), TRUE, Some("r1"), None),
      Outcome(Some("coder"), Some("io_bound"), FALSE, None, Some(<<"e1">>)),
      Outcome(Some("coder"), Some("io_bound"), FALSE, None, Some(<<"e2">>)),
      Outcome(Some("designer"), Some("io_bound"), FALSE, None, Some(<<"e3">>)) }

ErrorsInit == AggInit

ErrorsNext ==
    \/ \E o \in ErrorOutcomes : AddOutcome(o)
    \/ AggregateCall
    \/ ReaggregateCall
    \/ ClearCall

SpecErrors == ErrorsInit /\ [][ErrorsNext]_vars

(***************************************************************************)
(* The aggregator with validate_results called on the AggregatedResult of  *)
(* the latest aggregate call, any number of times.                         *)
(***************************************************************************)
RequiredLists ==
    { None, Some(<<>>), Some(<<"coder">>),
      Some(<<"tester", "designer", "coder">>),
      Some(<<"designer", "tester", "designer">>) }

\* the AggregatedResult the caller holds
HeldResult == IF agg_call.kind = "aggregate" THEN agg_call.out ELSE agg_call.result

\* result_aggregator.validate_results(result, required_agents)
ValidateCall(required_agents) ==
    /\ agg_call.kind \in {"aggregate", "validate"}
    /\ agg_call' = [kind |-> "validate",
                    result |-> HeldResult,
                    required_agents |-> required_agents,
                    validation |-> validate_results(HeldResult, required_agents)]
    /\ UNCHANGED <<result_aggregator, twin_aggregator, fed_keys, pending_results,
                   orchVars, restVars, routerVars>>

ValidateInit == AggInit

ValidateNext ==
    \/ \E o \in SampleOutcomes : AddOutcome(o)
    \/ AggregateCall
    \/ ClearCall
    \/ \E required_agents \in RequiredLists : ValidateCall(required_agents)

SpecValidate == ValidateInit /\ [][ValidateNext]_vars

(***************************************************************************)
(* Claims on Executor.execute and execute_parallel_tasks                   *)
(***************************************************************************)
Returned == call.phase = "returned"

IsPermutation(order, n) ==
    Len(order) = n /\ {order[k] : k \in 1..n} = 1..n

\* C1: in every mode Executor.execute returns a batch summary and never
\* raises because of a task: a worker that raises, a task that runs into
\* its timeout and a task for an unregistered worker are each recorded as
\* that task's outcome, with success = false and an error message.
C1_FailuresAreOutcomes ==
    /\ ~call.raised
    /\ Returned =>
         /\ call.summary # None
         /\ call.summary[1].mode = call.selected_mode
         /\ \A k \in 1..Len(call.tasks) :
               call.fate[k] \in {"raised", "timed_out", "unknown"} =>
                  /\ call.summary[1].results[k].agent = Some(TaskAt(k).agent_name)
                  /\ call.summary[1].results[k].success = FALSE
                  /\ call.summary[1].results[k].error # None

\* a thread-mode batch chosen by auto in which one worker raised, one task
\* timed out and one task named an unregistered worker
C1_Witness ==
    /\ Returned
    /\ call.mode = "auto"
    /\ call.selected_mode = "thread"
    /\ {"raised", "timed_out", "unknown"} \subseteq Range(call.fate)
    /\ call.summary # None
    /\ call.summary[1].failed = 3

\* C2: in every mode the batch summary holds exactly one outcome per
\* submitted task (len(results) = total = len(tasks)); a task whose worker
\* raises or times out contributes one outcome with success = false, every
\* sibling task is still run and reported with its own outcome, and
\* execute_parallel_tasks returns that same outcome list.
C2_OneOutcomePerTask ==
    Returned =>
       /\ call.summary # None
       /\ Len(call.summary[1].results) = Len(call.tasks)
       /\ call.summary[1].total = Len(call.tasks)
       /\ IsPermutation(call.sorted, Len(call.tasks))
       /\ call.result # None
       /\ call.result[1].results = call.summary[1].results
       /\ \A k \in 1..Len(call.tasks) :
             /\ call.fate[k] # "none"
             /\ call.summary[1].results[k].agent = Some(TaskAt(k).agent_name)
             /\ call.summary[1].results[k].success = (call.fate[k] = "returned")
             /\ call.fate[k] # "unknown" =>
                   <<TaskAt(k).agent_name, "task", call.sorted[k]>>
                       \in Range(appended)

\* a parallel batch of three tasks in which one worker raised, one task
\* timed out and the third task succeeded
C2_Witness ==
    /\ Returned
    /\ call.selected_mode = "parallel"
    /\ Len(call.tasks) = 3
    /\ {"raised", "timed_out", "returned"} = Range(call.fate)
    /\ call.summary[1].success = 1
    /\ Len(call.result[1].results) = 3

\* free slots of the semaphore of the executor the call runs on
FreeSlots == executors[call.executor].semaphore

RunningCount == Cardinality({k \in 1..Len(call.tasks) : call.pc[k] = "running"})

HasOutcome(k) ==
    /\ k \in 1..Len(call.tasks)
    /\ call.pc[k] = "done"
    /\ call.outcome[k] # None

\* a step in which the task at position k ends
Ends(k) ==
    /\ InFlight
    /\ k \in 1..Len(call.tasks)
    /\ call.pc[k] = "running"
    /\ call'.pc[k] = "done"

\* C3: under fairness, with finite timeouts, Executor.execute terminates for
\* every batch in every mode: a task whose worker has not returned when the
\* timeout expires is recorded as a timeout failure, the admission slot is
\* released on success, failure and timeout alike, no other in-flight task
\* of the batch is touched, and every task eventually has an outcome.
C3_TimeoutsEndTheBatch ==
    /\ InFlight ~> Returned
    /\ [](FreeSlots = MAX_ASYNC_CONCURRENT - RunningCount)
    /\ [](Returned => /\ ~call.raised
                      /\ \A k \in 1..Len(call.tasks) : HasOutcome(k))
    /\ [][\A k \in 1..MaxTasks : Ends(k) =>
             /\ FreeSlots' = FreeSlots + 1
             /\ \A j \in 1..Len(call.tasks) :
                   j # k => /\ call'.pc[j] = call.pc[j]
                            /\ call'.outcome[j] = call.outcome[j]
             /\ call'.fate[k] = "timed_out" =>
                   /\ call'.outcome[k][1].success = FALSE
                   /\ call'.outcome[k][1].error =
                         Some(<<"timed out", ToString(TaskAt(k).timeout)>>)]_vars

\* a task has timed out while a sibling admitted with it is still running
\* on its slot
C3_Witness ==
    /\ call.phase = "gathering"
    /\ \E k, j \in 1..Len(call.tasks) :
          /\ call.fate[k] = "timed_out"
          /\ call.pc[j] = "running"
    /\ FreeSlots = MAX_ASYNC_CONCURRENT - 1

\* C4: for every non-empty batch run through execute_parallel_tasks, after
\* any earlier batches, the returned counts satisfy success + failed = total
\* and total = len(tasks).
C4_CountsAddUp ==
    (Returned /\ call.tasks # <<>>) =>
       /\ call.result[1].success + call.result[1].failed = call.result[1].total
       /\ call.result[1].total = Len(call.tasks)

\* C5: a non-empty batch in which every worker succeeds returns
\* overall_status success with success = total = len(tasks), in every mode,
\* whether or not tasks share a worker, whatever ran before.
C5_AllSucceedIsSuccess ==
    (/\ Returned
     /\ call.tasks # <<>>
     /\ \A k \in 1..Len(call.tasks) : call.fate[k] = "returned") =>
       /\ call.result[1].overall_status = "success"
       /\ call.result[1].success = call.result[1].total
       /\ call.result[1].total = Len(call.tasks)

\* cpu_bound tasks of the call's batch
CpuBoundCount ==
    Cardinality({i \in 1..Len(call.tasks) :
                    analyze_task_type(call.tasks[i]) = "cpu_bound"})

\* C11: with mode auto on a non-empty batch the mode used depends only on
\* the number of cpu_bound tasks and the total: thread when more than half
\* are cpu_bound, else sequential when total <= 2, else parallel; names,
\* priorities, contexts and earlier batches play no part.
C11_AutoModeFromCounts ==
    (call.phase # "idle" /\ call.mode = "auto" /\ call.tasks # <<>>) =>
        call.selected_mode =
            IF 2 * CpuBoundCount > Len(call.tasks) THEN "thread"
            ELSE IF Len(call.tasks) <= 2 THEN "sequential"
            ELSE "parallel"

\* a second batch, half of it cpu_bound, that auto runs sequentially
C11_Witness ==
    /\ InFlight
    /\ call.mode = "auto"
    /\ result_aggregator.aggregation_history > 0
    /\ Len(call.tasks) = 2
    /\ CpuBoundCount = 1
    /\ call.selected_mode = "sequential"

(***************************************************************************)
(* Claims on ResultAggregator                                              *)
(***************************************************************************)
Aggregated == agg_call.kind = "aggregate"

\* C6: the overall_status aggregate returns is a function of the counts it
\* returns: success if total_count = 0 or success_count = total_count, else
\* partial if success_count / total_count >= quality_threshold, else success
\* if failed_count = 0, else failed; it is never timeout or error.
C6_StatusFromCounts ==
    Aggregated =>
        LET o == agg_call.out
            q == agg_call.quality_threshold
        IN  /\ o.overall_status =
                  IF o.total_count = 0 \/ o.success_count = o.total_count
                  THEN "success"
                  ELSE IF o.success_count * q.den >= q.num * o.total_count
                  THEN "partial"
                  ELSE IF o.failed_count = 0 THEN "success"
                  ELSE "failed"
            /\ o.overall_status \notin {"timeout", "error"}

\* a call that took the third branch: below the threshold, nothing failed
C6_Witness ==
    /\ Aggregated
    /\ agg_call.out.overall_status = "success"
    /\ agg_call.out.total_count > 0
    /\ agg_call.out.success_count < agg_call.out.total_count

\* C7: a batch of 10 outcomes with exactly 6 successes, aggregated by a fresh
\* aggregator with deduplication on, is partial at threshold 0.6 and failed
\* at threshold 0.7.
C7_RatioLaw ==
    (/\ Aggregated
     /\ agg_call.enable_deduplication
     /\ agg_call.fed_before = {}
     /\ result_aggregator.aggregation_history = 1
     /\ Len(agg_call.input.results) = 10
     /\ CountWhere(agg_call.input.results, IsSuccess) = 6) =>
        /\ agg_call.quality_threshold = [num |-> 6, den |-> 10]
              => agg_call.out.overall_status = "partial"
        /\ agg_call.quality_threshold = [num |-> 7, den |-> 10]
              => agg_call.out.overall_status = "failed"

\* C8: with deduplication enabled, aggregating the same batch summary again
\* on the same instance (no clear in between) counts nothing:
\* success_count = 0 and failed_count = 0.
C8_ReaggregateCountsNothing ==
    (Aggregated /\ agg_call.repeat /\ agg_call.enable_deduplication) =>
        /\ agg_call.out.success_count = 0
        /\ agg_call.out.failed_count = 0

C8_Witness ==
    /\ Aggregated
    /\ agg_call.repeat
    /\ agg_call.enable_deduplication
    /\ agg_call.input.results # <<>>
    /\ agg_call.out.success_count = 0

\* Whether results[i] is to be counted, as C9 states it
FirstOfItsKey(results, i, seen_before) ==
    LET key(k) == <<results[k].agent, results[k].task_type, results[k].success>>
    IN  /\ key(i) \notin seen_before
        /\ \A j \in 1..(i - 1) : key(j) # key(i)

\* C9: with deduplication enabled an outcome is counted iff no earlier
\* outcome of this call or of an earlier call since the last clear had the
\* same (agent, task_type, success); with deduplication disabled every
\* outcome is counted.  Result and error texts play no part.
C9_CountedIffFirstOfKey ==
    Aggregated =>
        LET rs == agg_call.input.results
            counted == {i \in 1..Len(rs) :
                          \/ ~agg_call.enable_deduplication
                          \/ FirstOfItsKey(rs, i, agg_call.fed_before)}
        IN  /\ agg_call.out.success_count =
                  Cardinality({i \in counted : rs[i].success})
            /\ agg_call.out.failed_count =
                  Cardinality({i \in counted : ~rs[i].success})
            /\ {e[2] : e \in {agg_call.out.errors[k] : k \in 1..Len(agg_call.out.errors)}}
                  = {rs[i].error[1] : i \in {c \in counted : ~rs[c].success}}

\* a call that dropped an outcome whose text differs from the one counted
\* before it, and counted another
C9_Witness ==
    /\ Aggregated
    /\ agg_call.enable_deduplication
    /\ agg_call.fed_before # {}
    /\ \E i, j \in 1..Len(agg_call.input.results) :
          /\ i < j
          /\ agg_call.input.results[i].result # agg_call.input.results[j].result
          /\ agg_call.input.results[i].agent = agg_call.input.results[j].agent
          /\ agg_call.input.results[i].success /\ agg_call.input.results[j].success
    /\ agg_call.out.success_count = 1
    /\ agg_call.out.failed_count = 1

\* What C10 compares of an AggregatedResult
Reported(o) == <<o.overall_status, o.total_count, o.success_count, o.failed_count,
                 o.results, o.summary, o.errors>>

AdmittedParallel(c) ==
    IF c.phase = "gathering"
    THEN Cardinality({k \in 1..Len(c.tasks) : c.pc[k] = "running"})
    ELSE 0

\* C12: at every moment the parallel-mode tasks admitted and without outcome,
\* over all batches running in the process, are at most MAX_ASYNC_CONCURRENT
C12_GlobalAdmissionBound ==
    AdmittedParallel(call) + AdmittedParallel(other) <= MAX_ASYNC_CONCURRENT

\* C13: in sequential and in thread mode outcomes[i] is the outcome of input
\* task i; in sequential mode task i+1 gets no message and is not started
\* before the outcome of task i is recorded
C13_BlockingKeepsInputOrder ==
    /\ (Returned /\ ~call.raised /\ call.selected_mode \in {"sequential", "thread"}) =>
          /\ Len(call.summary[1].results) = Len(call.tasks)
          /\ \A i \in 1..Len(call.tasks) :
                /\ call.summary[1].results[i] = call.outcome[i][1]
                /\ call.sorted[i] = i
                /\ call.summary[1].results[i].agent = Some(call.tasks[i].agent_name)
    /\ (call.phase = "blocking" /\ call.selected_mode = "sequential") =>
          \A k \in 1..Len(call.tasks) :
             (call.pc[k] # "created" \/ \E m \in Range(appended) : m[3] = k) =>
                \A j \in 1..(k - 1) : HasOutcome(j)

C13_Witness ==
    /\ Returned
    /\ call.selected_mode = "sequential"
    /\ Len(call.tasks) = 3
    /\ call.tasks[1].priority < call.tasks[2].priority
    /\ call.tasks[1].agent_name # call.tasks[2].agent_name
    /\ call.fate[1] = "timed_out"
    /\ call.fate[3] = "returned"

\* an outcome dict carries result and no error when success is true, error
\* and no result when success is false
OneOfResultAndError(r) ==
    /\ r.success => (r.result # None /\ r.error = None)
    /\ ~r.success => (r.error # None /\ r.result = None)

\* C14: every outcome the Executor produces, in every mode and on every
\* path, carries exactly one of result and error, as its success flag says
C14_ResultXorError ==
    /\ \A k \in 1..Len(call.outcome) :
          (call.outcome[k] # None /\ ~IsRaised(call.outcome[k][1])) =>
              OneOfResultAndError(call.outcome[k][1])
    /\ (Returned /\ call.summary # None) =>
          \A i \in 1..Len(call.summary[1].results) :
              OneOfResultAndError(call.summary[1].results[i])

\* a batch with an unregistered worker, a success and a timeout
C14_Witness ==
    /\ Returned
    /\ call.summary # None
    /\ Range(call.fate) = {"unknown", "returned", "timed_out"}
    /\ \E i \in 1..3 : call.summary[1].results[i].success
    /\ \E i \in 1..3 : call.summary[1].results[i].error # None

\* C15: execute on an empty batch, in any mode, returns total, success and
\* failed 0, no outcomes and a 0/0 breakdown, and dispatches nothing: no
\* message to a worker, no worker run, no admission slot taken
C15_EmptyBatchDispatchesNothing ==
    /\ [](Returned /\ call.tasks = <<>> =>
            /\ call.summary # None
            /\ call.summary[1].total = 0
            /\ call.summary[1].success = 0
            /\ call.summary[1].failed = 0
            /\ call.summary[1].results = <<>>
            /\ call.summary[1].task_breakdown = [cpu_bound |-> 0, io_bound |-> 0]
            /\ call.pc = <<>>
            /\ appended = <<>>
            /\ \A e \in 1..Len(executors) :
                  executors[e].semaphore = MAX_ASYNC_CONCURRENT)
    /\ [][(call'.phase = "returned" /\ call'.tasks = <<>> /\ call' # call) =>
             /\ call.phase \in {"idle", "returned"}
             /\ executors' = executors
             /\ appended' = <<>>]_vars

C15_Witness ==
    /\ Returned
    /\ call.tasks = <<>>
    /\ call.mode = "thread"
    /\ call.summary # None
    /\ call.summary[1].mode = "thread"

(***************************************************************************)
(* Claims on the registry and on delegate_task                             *)
(***************************************************************************)
\* C16: add_sub_agent with a registered name raises ValueError and
\* remove_sub_agent with a name not registered raises KeyError; a failing
\* call leaves the registry, the Executor, the task history and the shared
\* context as they were
C16_FailedRegistryCallsChangeNothing ==
    [][/\ (last_call' # last_call /\ last_call'.op = "add_sub_agent") =>
             IF last_call'.arg[1] \in Range(sub_agents)
             THEN /\ last_call'.raised = Some("ValueError")
                  /\ UNCHANGED <<sub_agents, executors, task_history, shared_context>>
             ELSE last_call'.raised = None
       /\ (last_call' # last_call /\ last_call'.op = "remove_sub_agent") =>
             IF last_call'.arg[1] \notin Range(sub_agents)
             THEN /\ last_call'.raised = Some("KeyError")
                  /\ UNCHANGED <<sub_agents, executors, task_history, shared_context>>
             ELSE last_call'.raised = None]_vars

\* a second add of designer failed while a batch holds a slot of the
\* executor it entered, with a task history and a shared context
C16_Witness ==
    /\ last_call = OpCall("add_sub_agent", Some("designer"), Some("ValueError"))
    /\ Len(executors) = 2
    /\ executors[1].semaphore < MAX_ASYNC_CONCURRENT
    /\ task_history > 0
    /\ DOMAIN shared_context # {}

\* C17: delegate_task with a name that is not registered raises KeyError
\* before any effect: no message is appended and no worker is run.  With a
\* registered name it dispatches to that worker only and leaves the routing
\* cache, the routing history and the load counters as they were.
C17_DelegateBypassesRouter ==
    [][(\/ delegation' # delegation
        \/ last_call' # last_call /\ last_call'.op = "delegate_task") =>
          /\ UNCHANGED <<route_cache, route_history, agent_load, appended>>
          /\ delegation.phase # "running" =>
                /\ last_call'.op = "delegate_task"
                /\ delegation'.agent = last_call'.arg
                /\ IF last_call'.arg[1] \notin Range(sub_agents)
                   THEN /\ last_call'.raised = Some("KeyError")
                        /\ delegation'.phase = "raised"
                        /\ delegation'.messages = <<>>
                   ELSE /\ last_call'.raised = None
                        /\ delegation'.phase = "running"
                        /\ delegation'.messages # <<>>
                        /\ \A i \in 1..Len(delegation'.messages) :
                              delegation'.messages[i][1] = last_call'.arg[1]
          /\ delegation.phase = "running" =>
                /\ delegation'.phase = "returned"
                /\ delegation'.agent = delegation.agent
                /\ delegation'.messages = delegation.messages]_vars

\* a task with context is with the coder while the router holds a cached
\* route, a history and a load
C17_Witness ==
    /\ delegation.phase = "running"
    /\ delegation.agent = Some("coder")
    /\ Len(delegation.messages) = 2
    /\ DOMAIN route_cache # {}
    /\ route_history # <<>>
    /\ agent_load["coder"] > 0

(***************************************************************************)
(* Claims on the router                                                    *)
(***************************************************************************)
\* the RouteResult objects the last route or route_batch call returned, as
\* they are now
Routed == IF last_call.op \in {"route", "route_batch"} /\ routed # None
          THEN {route_history[routed[1][i]].result : i \in 1..Len(routed[1])}
          ELSE {}

\* C18: route and route_batch return a result for every registry and every
\* task or task list, without raising; with no registered worker route
\* returns the worker "default" with confidence 0 and no alternatives
C18_RoutingNeverFails ==
    /\ last_call.op \in {"route", "route_batch"} =>
          /\ last_call.raised = None
          /\ routed # None
    /\ (last_call.op = "route" /\ sub_agents = <<>>) =>
          \A result \in Routed :
             /\ result.agent_name = "default"
             /\ result.confidence = Zero
             /\ result.alternatives = <<>>

\* C19: while the registry is non-empty, the worker named by route and by
\* every result of route_batch is registered at the time of the call
C19_RoutedWorkerIsRegistered ==
    sub_agents # <<>> =>
        \A result \in Routed : result.agent_name \in Range(sub_agents)

\* C20: every RouteResult returned by route or route_batch has a confidence
\* from 0 to 1
C20_ConfidenceInUnitInterval ==
    \A result \in Routed :
        /\ RatLeq(Zero, result.confidence)
        /\ RatLeq(result.confidence, One)

\* the worker a route call that made a new RouteResult has just returned
RouteReturned(w) ==
    /\ last_call'.op = "route"
    /\ Len(route_history') = Len(route_history) + 1
    /\ routed' # None
    /\ route_history'[routed'[1][1]].result.agent_name = w

\* C21: the load counter of a worker is never negative, and a route call
\* that returns the worker w raises w's load counter by one (the counter
\* counts the tasks routed to w that have not completed).
C21_LoadCountsRoutedTasks ==
    /\ [](\A w \in DOMAIN agent_load : agent_load[w] >= 0)
    /\ [][\A w \in DOMAIN agent_load :
             RouteReturned(w) => agent_load'[w] = agent_load[w] + 1]_vars

(***************************************************************************)
(* Claims on analyze_task_type, the dispatch order and the modes           *)
(***************************************************************************)
\* some keyword of the fixed list occurs in the text, letter case aside
FoldedKeywords ==
    Forced([n \in 1..Len(cpu_keywords) |-> Forced(LowerText(cpu_keywords[n]))])

HasCpuKeyword(text) ==
    \E folded \in {Forced(LowerText(text))} :
       \E n \in 1..Len(FoldedKeywords) :
          \E i \in 0..(Len(folded) - Len(FoldedKeywords[n])) :
             \A j \in 1..Len(FoldedKeywords[n]) :
                folded[i + j] = FoldedKeywords[n][j]

\* C22: analyze_task_type returns cpu_bound if and only if some keyword of
\* the fixed list is a case-insensitive substring of the task text, and
\* io_bound otherwise, whatever the worker, the context, the priority, the
\* task_type the Task object had before and the operations before it: the
\* count execute takes and the task_type execute_task stores both follow the
\* text alone.
C22_ClassifyByKeyword ==
    \E has \in {Forced([i \in 1..Len(call.tasks) |->
                           HasCpuKeyword(call.tasks[i].task)])} :
       /\ call.cpu_bound_count =
             Cardinality({i \in 1..Len(call.tasks) : has[i]})
       /\ \A k \in 1..Len(call.pc) :
             (call.pc[k] \in {"running", "done"} /\ call.fate[k] # "unknown") =>
                 TaskAt(k).task_type = IF has[call.sorted[k]]
                                       THEN "cpu_bound" ELSE "io_bound"

\* thread mode, which marks every task cpu_bound before it runs: a task
\* without a keyword is classified io_bound while one with a keyword in
\* another letter case, for another worker, is cpu_bound
C22_Witness ==
    /\ call.selected_mode = "thread"
    /\ \E k, j \in 1..Len(call.pc) :
          /\ call.pc[k] = "done" /\ call.fate[k] = "returned"
          /\ call.pc[j] = "running"
          /\ TaskAt(k).task = IoText /\ TaskAt(k).task_type = "io_bound"
          /\ TaskAt(j).task = CpuText /\ TaskAt(j).task_type = "cpu_bound"
          /\ TaskAt(k).agent_name # TaskAt(j).agent_name
          /\ TaskAt(k).priority # TaskAt(j).priority

(***************************************************************************)
(* Claims on the task history and the shared context                       *)
(***************************************************************************)
\* an execute_parallel_tasks call returns in this step
BatchCompletes == call'.phase = "returned" /\ call' # call /\ other' = other

\* an execute_task call of the orchestrator returns in this step
MainCallCompletes == main_agent.phase = "running" /\ main_agent'.phase = "returned"

\* C23: the length of task_history grows by one with every execute_task
\* call that completes, whether the main agent returned or raised, and by
\* the size of the batch with every execute_parallel_tasks call that
\* completes; clear_history sets it to 0; delegate_task, add_sub_agent,
\* remove_sub_agent, routing and the steps of calls in flight leave it as
\* it is.  So it is the number of execute_task calls plus the sizes of the
\* batches completed since the last clear_history.
C23_HistoryCountsCompletedWork ==
    [][task_history' =
          IF last_call'.op = "clear_history" /\ task_history' = 0 THEN 0
          ELSE IF BatchCompletes THEN task_history + Len(call'.tasks)
          ELSE IF MainCallCompletes THEN task_history + 1
          ELSE task_history]_vars

\* the history was cleared while an execute_task call and a batch of two
\* were in flight, after a delegation and a route; the main agent raised
\* and the batch returned: three entries
C23_Witness ==
    /\ last_call.op = "clear_history"
    /\ task_history = 3
    /\ main_agent.phase = "returned"
    /\ main_agent.result = Some([success |-> FALSE])
    /\ Returned
    /\ Len(call.tasks) = 2
    /\ delegation.phase = "returned"
    /\ route_history # <<>>
    /\ "designer" \in Range(sub_agents)

\* an execute_task call of the orchestrator starts in this step
MainCallStarts == main_agent'.calls = main_agent.calls + 1

\* the lines of a context message that lists exactly the items of context
ListsOnly(text, context) ==
    /\ Len(text) = Len(context) + 1
    /\ \A i \in 1..Len(context) :
          /\ text[i + 1][2] = context[i][1]
          /\ text[i + 1][4] = context[i][2]

\* the messages a worker gets for a task with the context given with it:
\* a context message listing that context alone when it is truthy, then
\* the task message
SubAgentMessages(messages, context) ==
    IF Truthy(context)
    THEN /\ Len(messages) = 2
         /\ messages[1][2] = "context"
         /\ ListsOnly(messages[1][Len(messages[1])], context[1])
         /\ messages[2][2] = "task"
    ELSE /\ Len(messages) = 1
         /\ messages[1][2] = "task"

\* C24: execute_task merges a truthy context into shared_context, its
\* values replacing those set before under the same key, and appends the
\* context message and then the task message to the main agent; it appends
\* nothing to a sub-agent.  A sub-agent gets, from delegate_task and from a
\* batch, the context given with its task and nothing of shared_context.
C24_SharedContextStaysWithMainAgent ==
    /\ [](/\ delegation.phase \in {"running", "returned"} =>
                SubAgentMessages(delegation.messages, delegation.context)
          /\ \A k \in 1..Len(call.pc) :
                (call.pc[k] # "created" /\ call.fate[k] # "unknown") =>
                    SubAgentMessages(
                        SelectSeq(appended, LAMBDA m : m[3] = call.sorted[k]),
                        TaskAt(k).context))
    /\ [][MainCallStarts =>
            /\ UNCHANGED <<appended, delegation>>
            /\ IF Truthy(main_agent'.context)
               THEN /\ DOMAIN shared_context' = DOMAIN shared_context
                          \cup {main_agent'.context[1][i][1] :
                                  i \in 1..Len(main_agent'.context[1])}
                    /\ \A i \in 1..Len(main_agent'.context[1]) :
                          shared_context'[main_agent'.context[1][i][1]]
                              = main_agent'.context[1][i][2]
                    /\ \A key \in DOMAIN shared_context :
                          (\A i \in 1..Len(main_agent'.context[1]) :
                              main_agent'.context[1][i][1] # key) =>
                              shared_context'[key] = shared_context[key]
                    /\ Len(main_agent'.messages) = Len(main_agent.messages) + 2
                    /\ SubSeq(main_agent'.messages, 1, Len(main_agent.messages))
                          = main_agent.messages
                    /\ main_agent'.messages[Len(main_agent.messages) + 1][1] = "context"
                    /\ ListsOnly(main_agent'.messages[Len(main_agent.messages) + 1][2],
                                 main_agent'.context[1])
                    /\ main_agent'.messages[Len(main_agent.messages) + 2] = <<"task">>
               ELSE /\ shared_context' = shared_context
                    /\ main_agent'.messages = Append(main_agent.messages, <<"task">>)]_vars

\* the shared context holds lang go, which replaced lang py, and os linux;
\* the coder got a delegated task without any context message and the
\* designer got, in a batch, the context lang py given with its task
C24_Witness ==
    /\ DOMAIN shared_context = {"lang", "os"}
    /\ shared_context["lang"] = "go"
    /\ Len(main_agent.messages) = 4
    /\ delegation.phase = "running"
    /\ delegation.context = None
    /\ delegation.messages = << <<"coder", "task">> >>
    /\ call.phase = "gathering"
    /\ \E m \in Range(appended) :
          /\ m[1] = "designer"
          /\ m[2] = "context"
          /\ m[4] = FormatContext(ContextHeader, PyContext[1])

\* the dispatch position of the task at input position p
DispatchPosition(p) == CHOOSE k \in 1..Len(call.sorted) : call.sorted[k] = p

\* C25: in parallel mode the tasks are dispatched in descending priority,
\* tasks of equal priority in input order: a task is admitted, and its
\* messages are appended, only after every task before it in that order.
C25_ParallelDispatchByPriority ==
    (call.selected_mode = "parallel" /\ call.phase \in {"gathering", "returned"}) =>
        /\ \A k, l \in 1..Len(call.sorted) :
              k < l =>
                 /\ TaskAt(k).priority >= TaskAt(l).priority
                 /\ TaskAt(k).priority = TaskAt(l).priority =>
                       call.sorted[k] < call.sorted[l]
                 /\ call.pc[l] # "created" => call.pc[k] # "created"
        /\ \A i, j \in 1..Len(appended) :
              i < j => DispatchPosition(appended[i][3]) <= DispatchPosition(appended[j][3])

\* three tasks of priorities 0, 1, 0 are all with their workers: the second
\* was dispatched first, then the first, then the third
C25_Witness ==
    /\ call.phase = "gathering"
    /\ call.sorted = <<2, 1, 3>>
    /\ \A k \in 1..3 : call.pc[k] = "running"
    /\ [i \in 1..Len(appended) |-> appended[i][3]] = <<2, 2, 1, 3>>

\* C26: in parallel mode the outcomes of the batch result are listed in
\* completion order: the outcome at position i of the results is that of
\* the task whose coroutine was the i-th to end.
C26_ParallelResultsInCompletionOrder ==
    [][(call.phase = "gathering" /\ call'.phase = "returned" /\ other' = other) =>
          \A i \in 1..Len(call.finished) :
             call'.summary[1].results[i] = call.outcome[call.finished[i]][1]]_vars

\* C27: in thread mode every task runs in a slot of the thread pool, at
\* most 2 * cpu_count at once, and the tasks of a batch are in flight
\* together: the next task is started while earlier ones are still running,
\* as long as a slot of the pool is free.
C27_ThreadModeRunsTasksTogether ==
    (call.selected_mode = "thread" /\ call.phase = "blocking") =>
        /\ RunningCount <= THREAD_POOL_SIZE
        /\ \A k \in 1..Len(call.pc) :
              (/\ call.pc[k] = "created"
               /\ \A j \in 1..(k - 1) : call.pc[j] # "created"
               /\ RunningCount < THREAD_POOL_SIZE) => ENABLED Admit(k)

\* C28: there is no cap per worker.  In parallel mode the next task in
\* dispatch order is admitted as soon as the semaphore has a free slot,
\* whether or not its worker is running another task of the batch.
C28_NoPerWorkerCap ==
    call.phase = "gathering" =>
        \A k \in 1..Len(call.pc) :
           (/\ call.pc[k] = "created"
            /\ \A j \in 1..(k - 1) : call.pc[j] # "created"
            /\ FreeSlots > 0) => ENABLED Admit(k)

\* two tasks for the coder are in flight at once: the messages of both are
\* in the coder's message list and neither run has ended
C28_Witness ==
    /\ call.phase = "gathering"
    /\ Len(call.tasks) = 2
    /\ \A k \in 1..2 : TaskAt(k).agent_name = "coder" /\ call.pc[k] = "running"
    /\ appended = << <<"coder", "task", 1>>, <<"coder", "task", 2>> >>
    /\ call.finished = <<>>

(***************************************************************************)
(* Claims on the registry and the event loop while a batch is in flight    *)
(***************************************************************************)
\* C29: add_sub_agent and remove_sub_agent during a parallel batch leave
\* the tasks of the batch as they are.  A task is admitted to its worker
\* when the worker is registered at that moment and otherwise ends with
\* the unknown-agent failure; an admitted task stays with its worker until
\* it returns, raises or times out, registered or not by then; an outcome
\* once recorded stays; and the batch returns one outcome per task.
C29_RegistryChangesLoseNoTask ==
    /\ []((Returned /\ call.selected_mode = "parallel" /\ call.tasks # <<>>) =>
             /\ Len(call.summary[1].results) = Len(call.tasks)
             /\ \A k \in 1..Len(call.tasks) :
                   /\ call.summary[1].results[k] = call.outcome[k][1]
                   /\ call.outcome[k][1].agent = Some(TaskAt(k).agent_name))
    /\ [][(call.phase = "gathering" /\ call'.phase \in {"gathering", "returned"}) =>
             /\ sub_agents' # sub_agents => call' = call /\ appended' = appended
             /\ \A k \in 1..Len(call.pc) :
                   /\ (call.pc[k] = "created" /\ call'.pc[k] # "created") =>
                         IF TaskAt(k).agent_name \in Range(sub_agents)
                         THEN call'.pc[k] = "running"
                         ELSE /\ call'.pc[k] = "done"
                              /\ call'.fate[k] = "unknown"
                              /\ ~call'.outcome[k][1].success
                   /\ call.pc[k] = "running" =>
                         \/ call'.pc[k] = "running"
                         \/ /\ call'.pc[k] = "done"
                            /\ call'.fate[k] \in {"returned", "raised", "timed_out"}
                            /\ call'.outcome[k][1].success = (call'.fate[k] = "returned")
                   /\ call.pc[k] = "done" =>
                         /\ call'.pc[k] = "done"
                         /\ call'.outcome[k] = call.outcome[k]]_vars

\* the designer was removed after its first task was admitted and before
\* the second was: the first returned, the second failed as unknown, and
\* the batch returned three outcomes
C29_Witness ==
    /\ Returned
    /\ call.fate = <<"returned", "unknown", "returned">>
    /\ "designer" \notin Range(sub_agents)
    /\ Len(call.summary[1].results) = 3
    /\ call.result[1].total = 3

\* C30: while Executor.execute runs a batch in sequential or thread mode,
\* the event loop runs nothing else: from the start of the batch to its
\* return no step belongs to another execute call, a delegation, a main
\* agent task or a registry change, and every step is one of the batch's own
C30_BlockingBatchHoldsTheLoop ==
    [][(call.phase = "blocking") =>
          /\ UNCHANGED <<sub_agents, other, last_call, shared_context,
                         delegation, main_agent>>
          /\ call'.tasks = [i \in 1..Len(call.tasks) |->
                              [call.tasks[i] EXCEPT
                                 !.task_type = call'.tasks[i].task_type]]
          /\ call'.phase \in {"blocking", "returned", "raised"}
          /\ \A k \in 1..Len(call.sorted) :
                call.pc[k] = "done" => call'.pc[k] = "done"]_vars

\* a thread or sequential batch has recorded its first outcome and runs its
\* second task while a parallel batch of another caller, a delegation and a
\* main agent task wait at their awaits
C30_Witness ==
    /\ call.phase = "blocking"
    /\ call.selected_mode \in {"sequential", "thread"}
    /\ call.pc[1] = "done"
    /\ call.pc[2] = "running"
    /\ other.phase = "gathering"
    /\ \E k \in 1..Len(other.sorted) : other.pc[k] = "running"
    /\ delegation.phase = "running"
    /\ main_agent.phase = "running"

(***************************************************************************)
(* Claims on the messages of a dispatched task                             *)
(***************************************************************************)
\* the places in the message log of the messages appended for input task p
MessagePlaces(p) == {i \in 1..Len(appended) : appended[i][3] = p}

\* C31: a task of a registered worker that was dispatched has given its
\* worker the task message, directly after the message of its context when
\* the context is present and not empty and with no context message
\* otherwise, and nothing else, and a worker runs a task only after that; a
\* task that was not dispatched yet and a task for a worker that is not
\* registered have appended no message to any worker
C31_ContextThenTaskThenRun ==
    \A k \in 1..Len(call.pc) :
       \E p \in {call.sorted[k]} :
          IF call.pc[k] = "created" \/ call.fate[k] = "unknown"
          THEN MessagePlaces(p) = {}
          ELSE \E i \in MessagePlaces(p) :
                  /\ appended[i] = <<call.tasks[p].agent_name, "task", p>>
                  /\ call.tasks[p].agent_name \in Range(sub_agents)
                  /\ IF call.tasks[p].context # None
                        /\ call.tasks[p].context[1] # <<>>
                     THEN /\ i > 1
                          /\ appended[i - 1] =
                                <<call.tasks[p].agent_name, "context", p,
                                  FormatContext(ContextHeader,
                                                call.tasks[p].context[1])>>
                          /\ MessagePlaces(p) = {i - 1, i}
                     ELSE MessagePlaces(p) = {i}

\* a returned batch of a task with a context, a task with an empty context
\* and a task for a worker that is not registered: three messages in all
C31_Witness ==
    /\ call.phase = "returned"
    /\ Len(call.tasks) = 3
    /\ \E a, b, c \in 1..3 :
          /\ Truthy(call.tasks[a].context)
          /\ call.tasks[a].agent_name = "designer"
          /\ call.tasks[b].context = Some(<<>>)
          /\ call.tasks[b].agent_name = "coder"
          /\ call.tasks[c].agent_name = "ghost"
          /\ Truthy(call.tasks[c].context)
    /\ Len(appended) = 3
    /\ \E i \in 1..2 : appended[i][2] = "context" /\ appended[i + 1][2] = "task"

(***************************************************************************)
(* Claims on the router's choice, its load balancing pass and its cache    *)
(***************************************************************************)
\* the final scores of the registered workers, in registry order, for a
\* task and a preferred agent
FinalScores(task, preferred_agent) ==
    CHOOSE r \in
      { Forced([i \in 1..Len(sub_agents) |->
            router_calculate_final_score(type_scores, sub_agents[i], agent_load)]) :
        type_scores \in
          {Preferred(router_analyze_task_type(router_preprocess_task(task)),
                     preferred_agent, sub_agents)} } : TRUE

\* the task holds a keyword of the agent type, letter case aside
HasKeywordOf(agent_type, task) ==
    \E folded \in {Forced(LowerText(task))} :
       \E k \in 1..Len(LoweredTaskKeywords[agent_type]) :
          Contains(LoweredTaskKeywords[agent_type][k], folded)

\* this step is a route call for task and preferred_agent that missed the
\* cache
RouteMisses(task, preferred_agent) ==
    /\ last_call'.op = "route"
    /\ Len(route_history') = Len(route_history) + 1
    /\ CacheKey(task, preferred_agent) \in DOMAIN route_cache' \ DOMAIN route_cache

\* the result made in this step names worker c of the registry, whose score
\* is the greatest and greater than that of every worker before it, and its
\* alternatives are the up to five best of the other workers by falling
\* score, each with its score
ChoosesBest(scores, result) ==
    \E c \in 1..Len(sub_agents) :
       /\ sub_agents[c] = result.agent_name
       /\ \A j \in 1..Len(sub_agents) :
             /\ RatLeq(scores[j], scores[c])
             /\ j < c => RatLess(scores[j], scores[c])
       /\ Len(result.alternatives) = Min(5, Len(sub_agents) - 1)
       /\ \A a \in 1..Len(result.alternatives) :
             /\ result.alternatives[a][1] # result.agent_name
             /\ \E j \in 1..Len(sub_agents) :
                   result.alternatives[a] = <<sub_agents[j], scores[j]>>
             /\ \A b \in (a + 1)..Len(result.alternatives) :
                   /\ result.alternatives[a][1] # result.alternatives[b][1]
                   /\ RatLeq(result.alternatives[b][2], result.alternatives[a][2])
             /\ \A j \in 1..Len(sub_agents) :
                   (/\ j # c
                    /\ \A b \in 1..Len(result.alternatives) :
                          result.alternatives[b][1] # sub_agents[j])
                   => RatLeq(scores[j], result.alternatives[a][2])

\* on the registry of coder and designer the task has a coder keyword and no
\* designer keyword
CoderScenario(task) ==
    /\ Range(sub_agents) = {"coder", "designer"}
    /\ HasKeywordOf("coder", task)
    /\ ~HasKeywordOf("designer", task)

\* C32: with workers registered, a route call that misses the cache chooses
\* a registered worker whose final score is the greatest, the one registered
\* first among equals, and its alternatives are the next at most five
\* workers by falling score, without the chosen one; on the registry of
\* coder and designer a task with a coder keyword and no designer keyword
\* goes to the coder unless the designer is the preferred agent
C32_RouteChoosesBestScore ==
    [][\A task \in ChoiceTexts, preferred_agent \in ChoicePreferred :
          (RouteMisses(task, preferred_agent) /\ sub_agents # <<>>) =>
             \E scores \in {FinalScores(task, preferred_agent)},
                result \in {route_history'[Len(route_history')].result} :
                /\ ChoosesBest(scores, result)
                /\ (CoderScenario(task) /\ preferred_agent # Some("designer"))
                      => result.agent_name = "coder"]_vars

\* C32 as stated: the task with a coder keyword and no designer keyword goes
\* to the coder whoever is preferred
C32_CoderKeywordRoutesToCoder ==
    [][\A task \in ChoiceTexts, preferred_agent \in ChoicePreferred :
          (RouteMisses(task, preferred_agent) /\ CoderScenario(task)) =>
             route_history'[Len(route_history')].result.agent_name = "coder"]_vars

\* all seven agent types are registered, the coder last, after it was
\* removed and added again; a task without any keyword was routed to the
\* designer, now the first of seven equals, with five alternatives
C32_Witness ==
    /\ Len(sub_agents) = 7
    /\ sub_agents[7] = "coder"
    /\ last_call.op = "route"
    /\ route_history # <<>>
    /\ route_history[Len(route_history)].task = IoText
    /\ route_history[Len(route_history)].result.agent_name = "designer"
    /\ route_history[Len(route_history)].result.confidence = Zero
    /\ Len(route_history[Len(route_history)].result.alternatives) = 5
    /\ \A a \in 1..5 :
          route_history[Len(route_history)].result.alternatives[a][2] = Zero

\* the results of route_batch(tasks) before the load balancing pass: the
\* router state after the routing loop, with the results
BeforeBalancing(tasks) ==
    RouteAll([cache |-> route_cache, history |-> route_history], <<>>, tasks,
             sub_agents, agent_load)

\* result i of the batch names a worker with more than twice the average
\* number of tasks, counts being the assigned counts: count > 2 * (n / m)
OverLimit(history, results, counts, i) ==
    GetCount(counts, history[results[i]].result.agent_name)
        * Len(sub_agents) > 2 * Len(results)

\* the alternatives of result i with a lower assigned count than its worker
LowerAlternatives(history, results, counts, i) ==
    {a \in 1..Len(history[results[i]].result.alternatives) :
        GetCount(counts, history[results[i]].result.alternatives[a][1])
          < GetCount(counts, history[results[i]].result.agent_name)}

\* C33: in route_batch, the first result whose worker is over the limit and
\* that has an alternative with a lower assigned count names, after the
\* pass, that alternative, and its confidence is 0.9 times the confidence of
\* the decision made by routing again.  (Before the first such result the
\* pass has changed no count.)
C33_OverloadedResultIsRerouted ==
    [][\A tasks \in RouterBatches :
          (route_batch(tasks) /\ tasks # <<>> /\ sub_agents # <<>>) =>
             \E pre \in {BeforeBalancing(tasks)} :
                \E counts \in {TaskCounts(pre.history, pre.results)} :
                   \A i \in 1..Len(pre.results) :
                      (/\ OverLimit(pre.history, pre.results, counts, i)
                       /\ LowerAlternatives(pre.history, pre.results, counts, i) # {}
                       /\ \A j \in 1..(i - 1) :
                             ~(/\ OverLimit(pre.history, pre.results, counts, j)
                               /\ LowerAlternatives(pre.history, pre.results,
                                                    counts, j) # {}))
                      => \E a \in LowerAlternatives(pre.history, pre.results,
                                                    counts, i) :
                            /\ route_history'[pre.results[i]].result.agent_name =
                                  pre.history[pre.results[i]].result.alternatives[a][1]
                            /\ Len(route_history') > Len(pre.history)
                            /\ route_history'[pre.results[i]].result.confidence =
                                  RatMul(route_history'[Len(pre.history) + 1]
                                            .result.confidence, <<9, 10>>)]_vars

\* the state of the load balancing pass when it comes to result i
RECURSIVE PassBefore(_, _, _)
PassBefore(pre, counts, i) ==
    IF i = 1
    THEN [cache |-> pre.cache, history |-> pre.history, counts |-> counts,
          raised |-> None]
    ELSE CHOOSE r \in
           { BalanceStep(st, pre.results, j, sub_agents, agent_load) :
             st \in {PassBefore(pre, counts, i - 1)}, j \in {i - 1} } : TRUE

\* when the pass comes to result i its worker is over the limit and none of
\* its alternatives has a lower assigned count
NothingLower(st, results, i) ==
    /\ OverLimit(st.history, results, st.counts, i)
    /\ LowerAlternatives(st.history, results, st.counts, i) = {}

\* C34: in the load balancing pass of route_batch a result whose worker is
\* over the limit and that has no alternative with a lower assigned count is
\* left as it is: the pass, at that result, changes neither its worker, its
\* confidence or its alternatives nor the assigned counts; and the result is
\* the same after the pass when that holds wherever the batch holds the
\* same result object
C34_NoLowerAlternativeLeavesResult ==
    [][\A tasks \in BalanceBatches :
          (route_batch(tasks) /\ sub_agents # <<>>) =>
             \E pre \in {BeforeBalancing(tasks)} :
                \E counts \in {TaskCounts(pre.history, pre.results)} :
                   \A i \in 1..Len(pre.results) :
                      \E st \in {PassBefore(pre, counts, i)},
                         nx \in {PassBefore(pre, counts, i + 1)} :
                         NothingLower(st, pre.results, i) =>
                            /\ nx.history[pre.results[i]].result =
                                  st.history[pre.results[i]].result
                            /\ nx.counts = st.counts
                            /\ nx.history = st.history
                            /\ (\A k \in 1..Len(pre.results) :
                                   pre.results[k] = pre.results[i] =>
                                      NothingLower(PassBefore(pre, counts, k),
                                                   pre.results, k))
                               => route_history'[pre.results[i]].result =
                                     pre.history[pre.results[i]].result]_vars

\* route_batch has returned, on the registry of three workers, the result
\* cached for the task when the coder was the only worker: the coder with
\* one task of one is over the limit and the result has no alternatives
C34_Witness ==
    /\ Len(sub_agents) = 3
    /\ last_call = OpCall("route_batch", None, None)
    /\ routed = Some(<<1>>)
    /\ route_history[1].result.agent_name = "coder"
    /\ route_history[1].result.alternatives = <<>>

\* C35: with caching enabled, what route has returned for a cache key, its
\* worker and its confidence, is what every later route call with that key
\* returns until clear_cache is called: no step but clear_cache takes a key
\* from the cache or changes the worker or the confidence of the result
\* cached under it, whether it is a route_batch call, a load change or a
\* registry change, and a route call that finds its key returns the cached
\* result and adds no routing history entry
C35_CachedRouteIsStable ==
    [][/\ \A key \in DOMAIN route_cache :
             last_call'.op # "clear_cache" =>
                /\ key \in DOMAIN route_cache'
                /\ route_history'[route_cache'[key]].result.agent_name =
                      route_history[route_cache[key]].result.agent_name
                /\ route_history'[route_cache'[key]].result.confidence =
                      route_history[route_cache[key]].result.confidence
       /\ \A task \in RouterTexts, preferred_agent \in {None, Some("coder")} :
             (/\ route(task, preferred_agent)
              /\ CacheKey(task, preferred_agent) \in DOMAIN route_cache)
             => /\ route_history' = route_history
                /\ routed' = Some(<<route_cache[CacheKey(task, preferred_agent)]>>)]_vars

(***************************************************************************)
(* Claims on the registry as the executor, the router and get_status see   *)
(* it                                                                      *)
(***************************************************************************)
\* the worker names get_status reports
StatusNames == Range(get_status.sub_agent_names)

\* the names in a RouteResult: the chosen worker and the alternatives
RankedNames(result) ==
    {result.agent_name}
        \cup {result.alternatives[a][1] : a \in 1..Len(result.alternatives)}

\* C36: the workers the executor dispatches to, the workers the router
\* ranks and the names get_status reports are one set, whose size is
\* sub_agent_count: a batch task is dispatched exactly when get_status names
\* its worker and ends as unknown agent otherwise, delegate_task dispatches
\* exactly when get_status names the worker and raises KeyError otherwise,
\* and a route call that misses the cache ranks exactly the names of
\* get_status.  A successful add_sub_agent(n) adds n to that set and a
\* successful remove_sub_agent(n) takes n from it and nothing else, so that
\* an add followed by a remove of the same name restores the set.
C36_OneRegistryForAll ==
    /\ [](get_status.sub_agent_count = Cardinality(StatusNames))
    /\ [][/\ \A k \in 1..MaxTasks :
                Admit(k) =>
                   IF TaskAt(k).agent_name \in StatusNames
                   THEN /\ call'.pc[k] = "running"
                        /\ appended'[Len(appended')] =
                              <<TaskAt(k).agent_name, "task", call.sorted[k]>>
                   ELSE /\ call'.fate[k] = "unknown"
                        /\ call'.outcome[k] = Some(UnknownAgentOutcome(TaskAt(k)))
                        /\ appended' = appended
          /\ \A name \in WorkerNames :
                delegate_task(name, None) =>
                   IF name \in StatusNames
                   THEN /\ delegation'.phase = "running"
                        /\ delegation'.messages # <<>>
                        /\ last_call'.raised = None
                   ELSE /\ delegation'.phase = "raised"
                        /\ delegation'.messages = <<>>
                        /\ last_call'.raised = Some("KeyError")
          /\ (route(PosterText, None) /\ Len(route_history') > Len(route_history)
              /\ StatusNames # {})
                => RankedNames(route_history'[Len(route_history')].result)
                      = StatusNames
          /\ \A name \in WorkerNames :
                /\ (add_sub_agent(name) /\ last_call'.raised = None) =>
                      /\ name \notin StatusNames
                      /\ Range(sub_agents') = StatusNames \cup {name}
                      /\ Len(sub_agents') = get_status.sub_agent_count + 1
                /\ (remove_sub_agent(name) /\ last_call'.raised = None) =>
                      /\ name \in StatusNames
                      /\ Range(sub_agents') = StatusNames \ {name}
                      /\ Len(sub_agents') = get_status.sub_agent_count - 1]_vars

\* the designer was added and a task was delegated to it; it was removed
\* again, which leaves the coder as the only worker, and the batch admitted
\* after that ended its designer task as unknown agent and dispatched its
\* coder task
C36_Witness ==
    /\ get_status.sub_agent_names = <<"coder">>
    /\ get_status.sub_agent_count = 1
    /\ last_call = OpCall("remove_sub_agent", Some("designer"), None)
    /\ delegation.phase = "running"
    /\ delegation.agent = Some("designer")
    /\ call.phase = "gathering"
    /\ \E k \in 1..Len(call.pc) :
          /\ TaskAt(k).agent_name = "designer"
          /\ call.fate[k] = "unknown"
    /\ \E k \in 1..Len(call.pc) :
          /\ TaskAt(k).agent_name = "coder"
          /\ call.pc[k] = "running"

(***************************************************************************)
(* Claims on the outcome of a single delegation                            *)
(***************************************************************************)
\* the outcome dict of the delegation that just ended
DelegateOutcome == delegation'.result[1]

\* C37: delegate_task to a registered worker never raises for a worker
\* failure: when the worker raises, the outcome has success false and the
\* worker's message verbatim as error; when the deadline expires, the outcome
\* has success false and the timeout error; the outcome tells the two apart
\* (no outcome is both the outcome of a worker's exception and the outcome of
\* an expired deadline); when the worker returns, the outcome has success
\* true and the worker's result.
C37_DelegateFailureIsCategorized ==
    [][ /\ (DelegateReturns \/ DelegateTimesOut
              \/ \E exception \in WorkerExceptions : DelegateWorkerRaises(exception))
           => /\ delegation'.phase = "returned"
              /\ DelegateOutcome.agent = delegation.agent
        /\ DelegateReturns
           => /\ DelegateOutcome.success
              /\ DelegateOutcome.result = Some("done")
        /\ DelegateTimesOut
           => /\ ~DelegateOutcome.success
              /\ DelegateOutcome.error = Some("timed out")
        /\ \A exception \in WorkerExceptions :
              DelegateWorkerRaises(exception)
              => /\ ~DelegateOutcome.success
                 /\ DelegateOutcome.error = Some(exception.message)
                 /\ ~DelegateTimesOut ]_vars

(***************************************************************************)
(* Claims on the AggregatedResult and on validate_results                  *)
(***************************************************************************)
\* the places of the outcomes the last aggregate call dropped as duplicates
DroppedPlaces ==
    {i \in 1..Len(agg_call.input.results) :
        /\ agg_call.enable_deduplication
        /\ ~FirstOfItsKey(agg_call.input.results, i, agg_call.fed_before)}

\* the places of the failed outcomes the last aggregate call counted, in
\* outcome order
CountedFailures ==
    SelectSeq([i \in 1..Len(agg_call.input.results) |-> i],
              LAMBDA i : /\ i \notin DroppedPlaces
                         /\ ~agg_call.input.results[i].success)

\* C38: every AggregatedResult aggregate returns has total_count =
\* len(results), results being the input list as it was, dropped duplicates
\* included; errors has one entry per counted failed outcome, in outcome
\* order, so len(errors) = failed_count; success_count + failed_count <=
\* total_count, with equality exactly when no outcome was dropped.
C38_AggregatedResultShape ==
    Aggregated =>
        /\ agg_call.out.total_count = Len(agg_call.out.results)
        /\ agg_call.out.results = agg_call.input.results
        /\ Len(agg_call.out.errors) = agg_call.out.failed_count
        /\ Len(agg_call.out.errors) = Len(CountedFailures)
        /\ \A k \in 1..Len(CountedFailures) :
              agg_call.out.errors[k] =
                 <<agg_call.input.results[CountedFailures[k]].agent[1],
                   agg_call.input.results[CountedFailures[k]].error[1]>>
        /\ agg_call.out.success_count + agg_call.out.failed_count
              <= agg_call.out.total_count
        /\ (agg_call.out.success_count + agg_call.out.failed_count
              = agg_call.out.total_count) <=> (DroppedPlaces = {})

\* a call that counted two failures with different texts, the designer's
\* before the coder's, and dropped a third outcome as a duplicate
C38_Witness ==
    /\ Aggregated
    /\ Len(agg_call.input.results) = 3
    /\ DroppedPlaces = {3}
    /\ agg_call.out.failed_count = 2
    /\ agg_call.out.errors = << <<"designer", <<"e3">> >>, <<"coder", <<"e2">> >> >>

\* the required agents of the last validate_results call without an outcome
\* in the result it was given, in the order required
MissingRequired ==
    SelectSeq(GetOr(agg_call.required_agents, <<>>),
              LAMBDA agent : \A i \in 1..Len(agg_call.result.results) :
                                agg_call.result.results[i].agent # Some(agent))

\* C39: validate_results never raises and changes neither the
\* AggregatedResult nor the aggregator: is_valid is false iff some required
\* worker has no outcome in results, missing_agents lists exactly those
\* workers in the order required, and without a required list is_valid is
\* true.
C39_ValidationReportsMissingWorkers ==
    /\ [](agg_call.kind = "validate" =>
            /\ agg_call.validation.raised = None
            /\ agg_call.validation.is_valid <=> (MissingRequired = <<>>)
            /\ agg_call.validation.missing_agents = MissingRequired
            /\ (agg_call.required_agents = None => agg_call.validation.is_valid))
    /\ [][\A required_agents \in RequiredLists :
            ValidateCall(required_agents) =>
               /\ result_aggregator' = result_aggregator
               /\ agg_call'.result = HeldResult]_vars

\* a validation of a result with a counted failure and a dropped duplicate,
\* in which coder and designer have outcomes and tester has none
C39_Witness ==
    /\ agg_call.kind = "validate"
    /\ agg_call.required_agents = Some(<<"tester", "designer", "coder">>)
    /\ agg_call.validation.missing_agents = <<"tester">>
    /\ ~agg_call.validation.is_valid
    /\ agg_call.result.failed_count > 0
    /\ agg_call.result.success_count + agg_call.result.failed_count
          < agg_call.result.total_count

=============================================================================
